---- MODULE Spec2Model ----
(***************************************************************************)
(* Model of the agent orchestration pipeline of the hosting planner:       *)
(* run_agent (backend/app/agent/runner.py), the step functions it calls    *)
(* (backend/app/agent/steps.py), the AgentState they thread through        *)
(* (backend/app/agent/state.py) and the WebSocket handler that invokes     *)
(* run_agent and keeps the returned state (backend/app/main.py).           *)
(*                                                                         *)
(* One action per stretch of run_agent between two awaits.  The AI         *)
(* service, the task-list service, the WebSocket peer and the human are    *)
(* the environment: every call to them may succeed or raise, and the       *)
(* tasks of a fan-out settle in any order.                                 *)
(***************************************************************************)
EXTENDS Integers, Sequences, FiniteSets, TLC

(***************************************************************************)
(* Bounds of the model                                                     *)
(***************************************************************************)
MaxDishes == 2      \* dishes in the confirmed menu
MaxRounds == 2      \* correction messages the human sends in one run
MaxRuns == 2        \* invocations of run_agent on one connection
MaxAdults == 8      \* adult guests of a call of the quantity engine
MaxChildren == 2    \* child guests of a call of the quantity engine
MaxLines == 2       \* ingredient lines of a base recipe
MaxItems == 3      \* items of a list handed to build_grouped
MaxPlans == 2      \* plan snapshots saved for one session

(***************************************************************************)
(* AgentStage: the string constants of state.py, and the one more that     *)
(* generate_recipes assigns.                                               *)
(***************************************************************************)
IDLE == "idle"
CALCULATING_QUANTITIES == "calculating_quantities"
GETTING_INGREDIENTS == "getting_ingredients"
AGGREGATING == "aggregating"
AWAITING_REVIEW == "awaiting_review"
APPLYING_CORRECTIONS == "applying_corrections"
DELIVERING == "delivering"
COMPLETE == "complete"
ERROR == "error"
GENERATING_RECIPES == "generating_recipes"

AgentStage ==
  {IDLE, CALCULATING_QUANTITIES, GETTING_INGREDIENTS, AGGREGATING,
   AWAITING_REVIEW, APPLYING_CORRECTIONS, DELIVERING, COMPLETE, ERROR}

(***************************************************************************)
(* OutputFormat (models/event.py)                                          *)
(***************************************************************************)
GOOGLE_SHEET == "google_sheet"
GOOGLE_TASKS == "google_tasks"
IN_CHAT == "in_chat"
OutputFormat == {GOOGLE_SHEET, GOOGLE_TASKS, IN_CHAT}

(***************************************************************************)
(* The menu: one Recipe per dish.  sb: preparation_method is store-bought; *)
(* rec: the recipe carries a non-empty list of base ingredients.           *)
(***************************************************************************)
Recipe == [sb : BOOLEAN, rec : BOOLEAN]

RECURSIVE SeqsUpTo(_, _)
SeqsUpTo(S, n) ==
  IF n = 0 THEN {<<>>}
  ELSE LET shorter == SeqsUpTo(S, n - 1)
       IN  shorter \cup {Append(s, x) : s \in {t \in shorter : Len(t) = n - 1}, x \in S}

Menus == {m \in SeqsUpTo(Recipe, MaxDishes) : Len(m) >= 1}

(***************************************************************************)
(* Names as Python sees them: str.lower and str.strip on the names and     *)
(* texts that occur in the model.                                          *)
(***************************************************************************)
Lower(s) ==
  CASE s = "Garlic" -> "garlic"
    [] s = "Salt" -> "salt"
    [] s = "SALT" -> "salt"
    [] s = " Water" -> " water"
    [] s = "Water" -> "water"
    [] s = "Ribs" -> "ribs"
    [] OTHER -> s

Strip(s) ==
  CASE s = " water" -> "water"
    [] s = " Water" -> "Water"
    [] s = "  " -> ""
    [] OTHER -> s

(***************************************************************************)
(* AggregatedIngredient: the name stands for the item; its                 *)
(* grocery_category is what the AI service assigned to it.                 *)
(***************************************************************************)
grocery_category(name) ==
  CASE name = "Garlic" -> "produce"
    [] name = " Water" -> "beverages"
    [] OTHER -> "pantry"

(***************************************************************************)
(* ShoppingList.build_grouped: a dict from category to the items of that   *)
(* category in item order, keys in the order they first occur (a Python    *)
(* dict keeps insertion order): here a sequence of [key, items] entries.   *)
(***************************************************************************)
SetDefaultAppend(result, key, item) ==
  IF \E j \in 1..Len(result) : result[j].key = key
  THEN [j \in 1..Len(result) |->
          IF result[j].key = key
          THEN [result[j] EXCEPT !.items = Append(@, item)]
          ELSE result[j]]
  ELSE Append(result, [key |-> key, items |-> <<item>>])

RECURSIVE GroupFirst(_, _)
GroupFirst(items, n) ==
  IF n = 0 THEN <<>>
  ELSE SetDefaultAppend(GroupFirst(items, n - 1), grocery_category(items[n]),
                        items[n])

(* build_grouped that assigns result[key] = [item]: the last item of a     *)
(* category replaces the ones before it.                                   *)
build_grouped_Overwrites(items) ==
  LET g == GroupFirst(items, Len(items))
  IN  [j \in 1..Len(g) |-> [g[j] EXCEPT !.items = <<@[Len(@)]>>]]

build_grouped(items) == GroupFirst(items, Len(items))

(***************************************************************************)
(* ShoppingList: absent (None), or a list value.  guests: "zero" as the AI *)
(* service constructs it, "event" once run_agent has back-filled the guest *)
(* counts of the event.                                                    *)
(***************************************************************************)
NoList ==
  [present |-> FALSE, items |-> <<>>, grouped |-> <<>>, meal_plan |-> <<>>,
   guests |-> "zero"]

ShoppingList(meal_plan, guests, items) ==
  [present |-> TRUE, items |-> items, grouped |-> <<>>, meal_plan |-> meal_plan,
   guests |-> guests]

VARIABLES
  pc,            \* where run_agent stands; "idle" when no run is in progress
  state,         \* the AgentState of the run in progress; between runs the
                 \* state the last run returned (main.py: session.agent_state)
  event_data,    \* the confirmed menu (EventPlanningData.meal_plan.recipes)
  tasks_service, \* run_agent's tasks_service argument is not None (drawn
                 \* where create_google_tasks reads it)
  ws,            \* the WebSocket: "open" or "severed"
  sent,          \* the messages this run handed to _send, in order
  review_seen,   \* the review notification awaiting its answer reached the human
  inbox,         \* the review response on its way to receive_json
  local,         \* get_all_dish_ingredients: dish_ingredients built locally
  gemini,        \* enrichment fan-out: task status per delegated spec index
  dtask,         \* delivery fan-out: task status per delivery task
  runs,          \* run_agent invocations so far
  calls,         \* calls made to the collaborators in this run
  skip_to_delivery, \* run_agent's local of the same name
  approved,      \* history: the human has approved the shopping list of state
  prior_list,    \* history: this run was handed a prior state with a shopping list
  corrections,   \* history: correction messages the human sent in this run
  review_msg,    \* run_agent's local of the same name: the response last received
  ai_reply,      \* the item list the AI service last returned in this run
  call,          \* the library function under call, its arguments and result
  session,       \* the conversation's event data (SessionData.event_data)
  google_credentials, \* SessionData.google_credentials of the WebSocket handler
  row,           \* the AppSession row of the session in the database
  agent_state,   \* SessionData.agent_state of the WebSocket handler
  plans          \* SavedPlan rows written for the session

vars == <<pc, state, event_data,
          tasks_service, ws, sent, review_seen, inbox, local, gemini, dtask,
          runs, calls, approved, skip_to_delivery, prior_list, corrections,
          review_msg, ai_reply, call, session,
          google_credentials, row, agent_state, plans>>

(* What the WebSocket handler and the database hold besides the event data. *)
handler_vars == <<google_credentials, row, agent_state, plans>>

(***************************************************************************)
(* AgentState(event_data, output_formats): the defaults of state.py        *)
(***************************************************************************)
NewAgentState(formats) ==
  [stage |-> IDLE,
   error |-> "none",
   output_formats |-> formats,
   serving_specs |-> <<>>,
   dish_ingredients |-> <<>>,
   shopping_list |-> NoList,
   user_corrections |-> "none",
   google_sheet_url |-> "none",
   google_tasks_url |-> "none",
   google_tasks |-> "none",
   formatted_chat_output |-> "none",
   formatted_recipes_output |-> "none"]

NoCalls ==
  [categorise |-> 0, enrich |-> 0, aggregate |-> 0, correct |-> 0, recipes |-> 0]

DeliveryTasks == {"chat", "recipes", "tasks"}
NoTasks == [t \in DeliveryTasks |-> "none"]

(* No library function is under call.                                      *)
NoCall == [fn |-> "none", args |-> <<>>, result |-> <<>>]

(***************************************************************************)
(* EventPlanningData() as a new session holds it (models/event.py): the    *)
(* defaults of the fields the conversation stages depend on.               *)
(* answered_questions is kept as the set of question ids whose entry is    *)
(* True; has_ingredients of a recipe stands for a non-empty ingredients.   *)
(***************************************************************************)
NewEventData ==
  [conversation_stage |-> "gathering",
   answered_questions |-> {},
   meal_plan |-> [recipes |-> <<>>, confirmed |-> FALSE],
   output_formats |-> <<>>,
   is_complete |-> FALSE]

(* run_agent is not running and has not run.                               *)
AgentAtRest ==
  /\ pc = "idle"
  /\ state = NewAgentState({IN_CHAT})
  /\ tasks_service = FALSE
  /\ ws = "open"
  /\ sent = <<>>
  /\ review_seen = FALSE
  /\ inbox = "none"
  /\ local = <<>>
  /\ gemini = <<>>
  /\ dtask = NoTasks
  /\ runs = 0
  /\ calls = NoCalls
  /\ approved = FALSE
  /\ skip_to_delivery = FALSE
  /\ prior_list = FALSE
  /\ corrections = 0
  /\ review_msg = "none"
  /\ ai_reply = <<>>

(* SessionData.agent_state: None, or what the last run_agent returned: its *)
(* stage and whether it holds a shopping list.                             *)
NoAgentState == [stage |-> "none", shopping_list |-> FALSE]

(* DbSessionManager.save_session: the row takes the event data and the     *)
(* credentials of the SessionData it is given.                             *)
save_session(data, credentials) ==
  [event_data |-> data, google_task_credentials |-> credentials]

(* A session as create_session stores it, and the WebSocket handler that   *)
(* has loaded it.                                                          *)
HandlerAtRest ==
  /\ google_credentials = "none"
  /\ row = save_session(NewEventData, "none")
  /\ agent_state = NoAgentState
  /\ plans = 0

Init ==
  /\ event_data \in Menus
  /\ AgentAtRest
  /\ call = NoCall
  /\ session = NewEventData
  /\ HandlerAtRest

(***************************************************************************)
(* _send: hands one message to websocket.send_text and swallows whatever   *)
(* the send raises, so a send that fails leaves no trace in the program.   *)
(* SendOutcomes: whether a message sent now reaches the peer; on a severed *)
(* connection none does, on an open one a send may still fail.             *)
(***************************************************************************)
SendOutcomes == IF ws = "open" THEN BOOLEAN ELSE {FALSE}

Message(type, stage) == [type |-> type, stage |-> stage]

_send(type, stage) == sent' = Append(sent, Message(type, stage))

(***************************************************************************)
(* The top-level handler of run_agent is entered by every exception that   *)
(* escapes a sequential stage.                                             *)
(***************************************************************************)
Raise == pc' = "except"

(* SkipToDelivery that never reuses the cached list.                       *)
SkipToDelivery_Never(has_existing, existing_state) == FALSE

(***************************************************************************)
(* run_agent, the re-entry test: existing_state and its shopping_list are  *)
(* both truthy (a pydantic model is truthy whatever its items).            *)
(***************************************************************************)
SkipToDelivery(has_existing, existing_state) ==
  has_existing /\ existing_state.shopping_list.present

(***************************************************************************)
(* websocket_chat hands off to run_agent with the session's cached state   *)
(* (None before the first run, afterwards what the last run returned);     *)
(* run_agent copies it with the new output formats or starts fresh.        *)
(***************************************************************************)
Invoke ==
  /\ pc = "idle"
  /\ runs < MaxRuns
  /\ ws = "open"
  /\ \E formats \in (SUBSET OutputFormat) \ {{}} :
       /\ IF SkipToDelivery(runs > 0, state)
          THEN /\ state' = [state EXCEPT !.output_formats = formats]
               /\ skip_to_delivery' = TRUE
               /\ pc' = "deliver"
          ELSE /\ state' = NewAgentState(formats)
               /\ skip_to_delivery' = FALSE
               /\ pc' = "calc"
  /\ tasks_service' = FALSE
  /\ runs' = runs + 1
  /\ sent' = <<>>
  /\ review_seen' = FALSE
  /\ calls' = NoCalls
  /\ inbox' = "none"
  /\ local' = <<>>
  /\ gemini' = <<>>
  /\ dtask' = NoTasks
  /\ prior_list' = (runs > 0 /\ state.shopping_list.present)
  /\ corrections' = 0
  /\ review_msg' = "none"
  /\ ai_reply' = <<>>
  /\ UNCHANGED <<event_data, ws, approved,
                 call, session, handler_vars>>

(***************************************************************************)
(* Step 1: calculate_quantities.  categorise_dishes answers with a         *)
(* category per dish name, or leaves a dish out; a dish left out gets      *)
(* STARCH_SIDE in calculate_all_serving_specs.                             *)
(***************************************************************************)
MAIN_PROTEIN == "main_protein"
SECONDARY_PROTEIN == "secondary_protein"
STARCH_SIDE == "starch_side"
VEGETABLE_SIDE == "vegetable_side"
SALAD == "salad"
BREAD == "bread"
DESSERT == "dessert"
PASSED_APPETIZER == "passed_appetizer"
BEVERAGE_ALCOHOLIC == "beverage_alcoholic"
BEVERAGE_NONALCOHOLIC == "beverage_nonalcoholic"

DishCategory ==
  {MAIN_PROTEIN, SECONDARY_PROTEIN, STARCH_SIDE, VEGETABLE_SIDE, SALAD, BREAD,
   DESSERT, PASSED_APPETIZER, BEVERAGE_ALCOHOLIC, BEVERAGE_NONALCOHOLIC}

BEVERAGE_CATEGORIES == {BEVERAGE_ALCOHOLIC, BEVERAGE_NONALCOHOLIC}

(***************************************************************************)
(* The quantity engine (services/quantity_engine.py).  Servings and        *)
(* quantities are counted in hundredths, the precision round(x, 2) keeps:  *)
(* 0.75 servings per person is 75.  A guest count times a multiplier of    *)
(* the tables is a whole number of hundredths, and so is a sum of two of   *)
(* them, so round(x, 2) returns them as they are.                          *)
(***************************************************************************)
ADULT_SERVINGS_PER_PERSON ==
  [c \in DishCategory |->
     CASE c = MAIN_PROTEIN -> 100
       [] c = SECONDARY_PROTEIN -> 50
       [] c = STARCH_SIDE -> 100
       [] c = VEGETABLE_SIDE -> 100
       [] c = SALAD -> 100
       [] c = BREAD -> 100
       [] c = DESSERT -> 100
       [] c = PASSED_APPETIZER -> 200
       [] c = BEVERAGE_ALCOHOLIC -> 150
       [] c = BEVERAGE_NONALCOHOLIC -> 150]

CHILD_SERVINGS_PER_PERSON ==
  [c \in DishCategory |->
     CASE c = MAIN_PROTEIN -> 75
       [] c = SECONDARY_PROTEIN -> 50
       [] c = STARCH_SIDE -> 75
       [] c = VEGETABLE_SIDE -> 50
       [] c = SALAD -> 50
       [] c = BREAD -> 100
       [] c = DESSERT -> 100
       [] c = PASSED_APPETIZER -> 100
       [] c = BEVERAGE_ALCOHOLIC -> 0
       [] c = BEVERAGE_NONALCOHOLIC -> 100]

(* calculate_dish_serving_spec with the children left out of the total.    *)
calculate_dish_serving_spec_AdultsOnly(dish_name, dish_category, adult_count, child_count) ==
  [dish |-> dish_name,
   dish_category |-> dish_category,
   adult_servings |-> adult_count * ADULT_SERVINGS_PER_PERSON[dish_category],
   child_servings |-> child_count * CHILD_SERVINGS_PER_PERSON[dish_category],
   total_servings |-> adult_count * ADULT_SERVINGS_PER_PERSON[dish_category]]

calculate_dish_serving_spec(dish_name, dish_category, adult_count, child_count) ==
  LET adult_multiplier == ADULT_SERVINGS_PER_PERSON[dish_category]
      child_multiplier == CHILD_SERVINGS_PER_PERSON[dish_category]
      adult_servings == adult_count * adult_multiplier
      child_servings == child_count * child_multiplier
  IN  [dish |-> dish_name,
       dish_category |-> dish_category,
       adult_servings |-> adult_servings,
       child_servings |-> child_servings,
       total_servings |-> adult_servings + child_servings]

(* calculate_all_serving_specs that leaves out the dishes the mapping      *)
(* does not name.                                                          *)
calculate_all_serving_specs_SkipsMissing(meal_plan, dish_categories, adult_count, child_count) ==
  LET named == SelectSeq(meal_plan, LAMBDA dish : dish \in DOMAIN dish_categories)
  IN  [i \in 1..Len(named) |->
         calculate_dish_serving_spec(named[i], dish_categories[named[i]],
                                     adult_count, child_count)]

(* One spec per dish of the meal plan, in its order; dish_categories.get   *)
(* answers None for a dish the mapping does not name, which then counts as *)
(* a starch side.                                                          *)
calculate_all_serving_specs(meal_plan, dish_categories, adult_count, child_count) ==
  [i \in 1..Len(meal_plan) |->
     LET dish == meal_plan[i]
         category == IF dish \in DOMAIN dish_categories
                     THEN dish_categories[dish]
                     ELSE STARCH_SIDE
     IN  calculate_dish_serving_spec(dish, category, adult_count, child_count)]

(* The guests of the event being planned: event_data.adult_count and       *)
(* event_data.child_count.                                                 *)
EventGuests == [adult_count |-> 8, child_count |-> 2]

(* What categorise_dishes answers for one dish: a category, or nothing.    *)
ClassifierAnswers == {"missing", BEVERAGE_NONALCOHOLIC}

CalcQuantities ==
  /\ pc = "calc"
  /\ _send("agent_progress", CALCULATING_QUANTITIES)
  /\ \E answers \in [1..Len(event_data) -> ClassifierAnswers] :
       LET dish_names == [i \in 1..Len(event_data) |-> i]
           dish_categories ==
             [dish \in {i \in 1..Len(event_data) : answers[i] # "missing"} |->
                answers[dish]]
       IN  state' = [state EXCEPT
                       !.stage = CALCULATING_QUANTITIES,
                       !.serving_specs =
                          calculate_all_serving_specs(
                            dish_names, dish_categories,
                            EventGuests.adult_count, EventGuests.child_count)]
  /\ calls' = [calls EXCEPT !.categorise = @ + 1]
  /\ pc' = "enrich"
  /\ UNCHANGED <<review_seen, event_data,
                 tasks_service, ws, inbox, local, gemini, dtask, runs,
                 approved, skip_to_delivery, prior_list, corrections,
                 review_msg, ai_reply,
                 call, session, handler_vars>>

CalcQuantitiesRaises ==
  /\ pc = "calc"
  /\ _send("agent_progress", CALCULATING_QUANTITIES)
  /\ state' = [state EXCEPT !.stage = CALCULATING_QUANTITIES]
  /\ calls' = [calls EXCEPT !.categorise = @ + 1]
  /\ Raise
  /\ UNCHANGED <<review_seen, event_data,
                 tasks_service, ws, inbox, local, gemini, dtask, runs,
                 approved, skip_to_delivery, prior_list, corrections,
                 review_msg, ai_reply,
                 call, session, handler_vars>>

(***************************************************************************)
(* Step 2: get_all_dish_ingredients.  Routing per serving spec, then the   *)
(* fan-out over the specs left for the AI service.                         *)
(***************************************************************************)
_is_store_bought(dish) == event_data[dish].sb

_recipe_for(dish) == event_data[dish].rec

(* Route that looks at the category before the preparation method.        *)
Route_CategoryFirst(spec) ==
  IF spec.dish_category \in BEVERAGE_CATEGORIES THEN "gemini"
  ELSE IF _is_store_bought(spec.dish) THEN "store_bought"
       ELSE IF _recipe_for(spec.dish) THEN "scaled" ELSE "gemini"

(* The route of one serving spec: store-bought first, then a non-beverage  *)
(* with a base recipe, everything else to the AI service.                  *)
Route(spec) ==
  IF _is_store_bought(spec.dish) THEN "store_bought"
  ELSE IF spec.dish_category \notin BEVERAGE_CATEGORIES /\ _recipe_for(spec.dish)
       THEN "scaled"
       ELSE "gemini"

COUNT == "count"

(* The one line a store-bought dish gets: the dish itself, once.           *)
StoreBoughtLine(dish) == [name |-> dish, quantity |-> 1, unit |-> COUNT]

(* DishIngredients as built on each route.  Only the store-bought line is  *)
(* spelled out; the lines scaled from the base recipe and the lines the AI *)
(* service returns are each stood for by one line naming their origin.     *)
DishIngredients(spec, via) ==
  [dish |-> spec.dish, serving_spec |-> spec, via |-> via,
   ingredients |->
     IF via = "store_bought" THEN <<StoreBoughtLine(spec.dish)>>
     ELSE <<[name |-> via, quantity |-> 2, unit |-> "cups"]>>]

LocalIngredients(specs) ==
  LET routed == SelectSeq(specs, LAMBDA spec : Route(spec) # "gemini")
  IN  [i \in 1..Len(routed) |-> DishIngredients(routed[i], Route(routed[i]))]

(* SpecsForGemini that hands every dish that is not store-bought to the    *)
(* AI service.                                                             *)
SpecsForGemini_All(specs) ==
  LET routed == SelectSeq(specs, LAMBDA spec : Route(spec) # "store_bought")
  IN  [i \in 1..Len(routed) |-> [spec |-> routed[i], status |-> "pending"]]

SpecsForGemini(specs) ==
  LET routed == SelectSeq(specs, LAMBDA spec : Route(spec) = "gemini")
  IN  [i \in 1..Len(routed) |-> [spec |-> routed[i], status |-> "pending"]]

(* GatherResults with the failed tasks kept.                               *)
GatherResults_KeepsFailed(tasks) ==
  [i \in 1..Len(tasks) |-> DishIngredients(tasks[i].spec, "gemini")]

(* zip(specs_for_gemini, results): a result that is an Exception is        *)
(* logged and skipped, every other result is appended in task order.       *)
GatherResults(tasks) ==
  LET kept == SelectSeq(tasks, LAMBDA t : t.status = "ok")
  IN  [i \in 1..Len(kept) |-> DishIngredients(kept[i].spec, "gemini")]

EnrichDispatch ==
  /\ pc = "enrich"
  /\ _send("agent_progress", GETTING_INGREDIENTS)
  /\ LET todo == SpecsForGemini(state.serving_specs)
         done == LocalIngredients(state.serving_specs)
     IN  /\ local' = done
         /\ gemini' = todo
         /\ calls' = [calls EXCEPT !.enrich = @ + Len(todo)]
         /\ IF todo = <<>>
            THEN /\ state' = [state EXCEPT !.stage = GETTING_INGREDIENTS,
                                           !.dish_ingredients = done]
                 /\ pc' = "aggregate"
            ELSE /\ state' = [state EXCEPT !.stage = GETTING_INGREDIENTS]
                 /\ pc' = "enrich_wait"
  /\ UNCHANGED <<review_seen, event_data,
                 tasks_service, ws, inbox, dtask, runs, approved,
                 skip_to_delivery, prior_list, corrections,
                 review_msg, ai_reply,
                 call, session, handler_vars>>

(* One get_dish_ingredients call settles: it returns or it raises.         *)
EnrichSettle ==
  /\ pc = "enrich_wait"
  /\ \E i \in 1..Len(gemini), outcome \in {"ok", "failed"} :
       /\ gemini[i].status = "pending"
       /\ gemini' = [gemini EXCEPT ![i].status = outcome]
  /\ UNCHANGED <<pc, state, event_data, tasks_service, ws, sent, review_seen, inbox, local,
                 dtask, runs, calls, approved, skip_to_delivery, prior_list, corrections,
                 review_msg, ai_reply,
                 call, session, handler_vars>>

(* EnrichJoin that gives the run up when every delegated call failed.      *)
EnrichJoin_AbortsWhenAllFailed ==
  /\ pc = "enrich_wait"
  /\ \A i \in 1..Len(gemini) : gemini[i].status # "pending"
  /\ IF \A i \in 1..Len(gemini) : gemini[i].status = "failed"
     THEN state' = state /\ Raise
     ELSE /\ state' = [state EXCEPT
                         !.dish_ingredients = local \o GatherResults(gemini)]
          /\ pc' = "aggregate"
  /\ UNCHANGED <<event_data, tasks_service, ws, sent, review_seen, inbox,
                 local, gemini, dtask, runs, calls, approved,
                 skip_to_delivery, prior_list, corrections, review_msg,
                 ai_reply,
                 call, session, handler_vars>>

(* EnrichJoin that returns as soon as one task has settled.                *)
EnrichJoin_FirstCompleted ==
  /\ pc = "enrich_wait"
  /\ \E i \in 1..Len(gemini) : gemini[i].status # "pending"
  /\ state' = [state EXCEPT !.dish_ingredients = local \o GatherResults(gemini)]
  /\ pc' = "aggregate"
  /\ UNCHANGED <<event_data, tasks_service, ws, sent, review_seen, inbox,
                 local, gemini, dtask, runs, calls, approved,
                 skip_to_delivery, prior_list, corrections, review_msg,
                 ai_reply,
                 call, session, handler_vars>>

(* asyncio.gather returns once every task has settled.                     *)
EnrichJoin ==
  /\ pc = "enrich_wait"
  /\ \A i \in 1..Len(gemini) : gemini[i].status # "pending"
  /\ state' = [state EXCEPT !.dish_ingredients = local \o GatherResults(gemini)]
  /\ pc' = "aggregate"
  /\ UNCHANGED <<event_data,
                 tasks_service, ws, sent, review_seen, inbox, local, gemini, dtask,
                 runs, calls, approved, skip_to_delivery, prior_list, corrections,
                 review_msg, ai_reply,
                 call, session, handler_vars>>

(***************************************************************************)
(* Step 3: aggregate_ingredients, and the back-fill of the guest counts.   *)
(***************************************************************************)
NEVER_PURCHASE ==
  {"water", "tap water", "cold water", "hot water", "boiling water", "ice water"}

(* The item lists the AI service answers an aggregation with.              *)
AggregateAnswers == {<<>>, <<"Garlic", "Salt", " Water", "rice">>}

(* ai_service.aggregate_ingredients: the list it constructs around the     *)
(* items of the answer.                                                    *)
aggregate_ingredients(all_dish_ingredients, items) ==
  ShoppingList([i \in 1..Len(all_dish_ingredients) |-> all_dish_ingredients[i].dish],
               "zero", items)

(* FilterNeverPurchase that lower-cases the name without trimming it.      *)
FilterNeverPurchase_NoStrip(shopping_list) ==
  LET kept == SelectSeq(shopping_list.items,
                        LAMBDA name : Lower(name) \notin NEVER_PURCHASE)
  IN  [shopping_list EXCEPT !.items = kept, !.grouped = build_grouped(kept)]

(* steps.aggregate_ingredients after the await: drop the never-purchase    *)
(* items, build the group index.                                           *)
FilterNeverPurchase(shopping_list) ==
  LET kept == SelectSeq(shopping_list.items,
                        LAMBDA name : Strip(Lower(name)) \notin NEVER_PURCHASE)
  IN  [shopping_list EXCEPT !.items = kept, !.grouped = build_grouped(kept)]

(* run_agent: the guest counts of the event replace the zeros.             *)
BackfillGuests(shopping_list) == [shopping_list EXCEPT !.guests = "event"]

Aggregate ==
  /\ pc = "aggregate"
  /\ _send("agent_progress", AGGREGATING)
  /\ \E items \in AggregateAnswers :
       /\ ai_reply' = items
       /\ state' = [state EXCEPT
                      !.stage = AGGREGATING,
                      !.shopping_list =
                         BackfillGuests(FilterNeverPurchase(
                           aggregate_ingredients(state.dish_ingredients, items)))]
  /\ calls' = [calls EXCEPT !.aggregate = @ + 1]
  /\ approved' = FALSE
  /\ pc' = "review"
  /\ UNCHANGED <<review_seen, event_data,
                 tasks_service, ws, inbox, local, gemini, dtask, runs,
                 skip_to_delivery, prior_list, corrections, review_msg,
                 call, session, handler_vars>>

AggregateRaises ==
  /\ pc = "aggregate"
  /\ _send("agent_progress", AGGREGATING)
  /\ state' = [state EXCEPT !.stage = AGGREGATING]
  /\ calls' = [calls EXCEPT !.aggregate = @ + 1]
  /\ Raise
  /\ UNCHANGED <<review_seen, event_data,
                 tasks_service, ws, inbox, local, gemini, dtask, runs,
                 approved, skip_to_delivery, prior_list, corrections,
                 review_msg, ai_reply,
                 call, session, handler_vars>>

(***************************************************************************)
(* Steps 4-6: the review loop.                                             *)
(***************************************************************************)
ReviewPublish ==
  /\ pc = "review"
  /\ state' = [state EXCEPT !.stage = AWAITING_REVIEW]
  /\ _send("agent_review", AWAITING_REVIEW)
  /\ review_seen' \in SendOutcomes
  /\ pc' = "receive"
  /\ UNCHANGED <<event_data,
                 tasks_service, ws, inbox, local, gemini, dtask, runs, calls,
                 approved, skip_to_delivery, prior_list, corrections,
                 review_msg, ai_reply,
                 call, session, handler_vars>>

(* The human answers a review notification that reached them: with the     *)
(* approve button (with or without excluded items), with a blank message,  *)
(* with correction text, or with a frame receive_json cannot decode.       *)
ReviewResponses ==
  {"approve", "approve_excluding", "approve_excluding_unmatched", "blank",
   "whitespace", "malformed"}
    \cup (IF corrections < MaxRounds THEN {"corrections"} ELSE {})

(* What the decoded frames carry: review_msg.get("type"),                  *)
(* review_msg.get("excluded_items", []) and the text under "corrections"   *)
(* or "data".                                                              *)
MsgType(msg) ==
  IF msg \in {"approve", "approve_excluding", "approve_excluding_unmatched"}
  THEN "approve" ELSE "message"

excluded_items(msg) ==
  CASE msg = "approve_excluding" -> {"SALT"}
    [] msg = "approve_excluding_unmatched" -> {"pepper"}
    [] OTHER -> {}

MsgText(msg) ==
  CASE msg = "whitespace" -> "  "
    [] msg = "corrections" -> "remove the garlic"
    [] OTHER -> ""

HumanResponds ==
  /\ pc = "receive"
  /\ ws = "open"
  /\ inbox = "none"
  /\ review_seen
  /\ inbox' \in ReviewResponses
  /\ corrections' = corrections + (IF inbox' = "corrections" THEN 1 ELSE 0)
  /\ UNCHANGED <<pc, state, event_data, tasks_service, ws, sent, review_seen, local, gemini,
                 dtask, runs, calls, approved, skip_to_delivery, prior_list,
                 review_msg, ai_reply,
                 call, session, handler_vars>>

(* ExcludeItems that compares the names as they are written.               *)
ExcludeItems_CaseSensitive(items, excluded) ==
  SelectSeq(items, LAMBDA name : name \notin excluded)

(* The items whose lower-cased name is not a lower-cased excluded name.    *)
ExcludeItems(items, excluded) ==
  LET excluded_set == {Lower(name) : name \in excluded}
  IN  SelectSeq(items, LAMBDA name : Lower(name) \notin excluded_set)

(* ReviewApprove that filters the items and keeps the group index as it    *)
(* was.                                                                    *)
ReviewApprove_KeepsIndex ==
  /\ pc = "receive"
  /\ inbox # "none"
  /\ inbox # "malformed"
  /\ MsgType(inbox) = "approve"
  /\ LET excluded == excluded_items(inbox)
     IN  state' =
           IF excluded # {} /\ state.shopping_list.present
           THEN LET kept == ExcludeItems(state.shopping_list.items, excluded)
                IN  [state EXCEPT !.shopping_list.items = kept]
           ELSE state
  /\ approved' = TRUE
  /\ review_msg' = inbox
  /\ inbox' = "none"
  /\ review_seen' = FALSE
  /\ pc' = "deliver"
  /\ UNCHANGED <<event_data,
                 tasks_service, ws, sent, local, gemini, dtask, runs,
                 calls, skip_to_delivery, prior_list, corrections, ai_reply,
                 call, session, handler_vars>>

(* review_msg.get("type") == "approve": filter the excluded items out of   *)
(* the list, rebuild the group index, break.                               *)
ReviewApprove ==
  /\ pc = "receive"
  /\ inbox # "none"
  /\ inbox # "malformed"
  /\ MsgType(inbox) = "approve"
  /\ LET excluded == excluded_items(inbox)
     IN  state' =
           IF excluded # {} /\ state.shopping_list.present
           THEN LET kept == ExcludeItems(state.shopping_list.items, excluded)
                IN  [state EXCEPT !.shopping_list.items = kept,
                                  !.shopping_list.grouped = build_grouped(kept)]
           ELSE state
  /\ approved' = TRUE
  /\ review_msg' = inbox
  /\ inbox' = "none"
  /\ review_seen' = FALSE
  /\ pc' = "deliver"
  /\ UNCHANGED <<event_data,
                 tasks_service, ws, sent, local, gemini, dtask, runs,
                 calls, skip_to_delivery, prior_list, corrections, ai_reply,
                 call, session, handler_vars>>

(* ReviewBlank that takes a blank message for correction text.             *)
ReviewBlank_AppliesCorrections ==
  /\ pc = "receive"
  /\ inbox # "none"
  /\ inbox # "malformed"
  /\ MsgType(inbox) # "approve"
  /\ Strip(MsgText(inbox)) = ""
  /\ state' = [state EXCEPT !.stage = APPLYING_CORRECTIONS]
  /\ calls' = [calls EXCEPT !.correct = @ + 1]
  /\ review_msg' = inbox
  /\ inbox' = "none"
  /\ review_seen' = FALSE
  /\ pc' = "correct"
  /\ UNCHANGED <<event_data, tasks_service, ws, sent, local, gemini, dtask,
                 runs, approved, skip_to_delivery, prior_list, corrections,
                 ai_reply,
                 call, session, handler_vars>>

(* A message whose text is empty once stripped is treated as approval.     *)
ReviewBlank ==
  /\ pc = "receive"
  /\ inbox # "none"
  /\ inbox # "malformed"
  /\ MsgType(inbox) # "approve"
  /\ Strip(MsgText(inbox)) = ""
  /\ approved' = TRUE
  /\ review_msg' = inbox
  /\ inbox' = "none"
  /\ review_seen' = FALSE
  /\ pc' = "deliver"
  /\ UNCHANGED <<state, event_data,
                 tasks_service, ws, sent, local, gemini, dtask, runs,
                 calls, skip_to_delivery, prior_list, corrections, ai_reply,
                 call, session, handler_vars>>

(* Correction text: keep it on the state, announce, call apply_corrections,*)
(* which sets the stage and awaits the AI service.                         *)
ReviewCorrections ==
  /\ pc = "receive"
  /\ inbox # "none"
  /\ inbox # "malformed"
  /\ MsgType(inbox) # "approve"
  /\ Strip(MsgText(inbox)) # ""
  /\ _send("agent_progress", APPLYING_CORRECTIONS)
  /\ state' = [state EXCEPT !.user_corrections = Strip(MsgText(inbox)),
                            !.stage = APPLYING_CORRECTIONS]
  /\ calls' = [calls EXCEPT !.correct = @ + 1]
  /\ review_msg' = inbox
  /\ inbox' = "none"
  /\ review_seen' = FALSE
  /\ pc' = "correct"
  /\ UNCHANGED <<event_data,
                 tasks_service, ws, local, gemini, dtask, runs, approved,
                 skip_to_delivery, prior_list, corrections, ai_reply,
                 call, session, handler_vars>>

(* websocket.receive_json raises: the peer is gone, or the frame is not    *)
(* JSON.                                                                   *)
ReviewReceiveRaises ==
  /\ pc = "receive"
  /\ \/ ws = "severed" /\ inbox = "none"
     \/ inbox = "malformed"
  /\ inbox' = "none"
  /\ review_seen' = FALSE
  /\ Raise
  /\ UNCHANGED <<state, event_data,
                 tasks_service, ws, sent, local, gemini, dtask, runs,
                 calls, approved, skip_to_delivery, prior_list, corrections,
                 review_msg, ai_reply,
                 call, session, handler_vars>>

(* The item lists the AI service answers a correction request with.        *)
CorrectionAnswers == {<<>>, <<"Salt", "rice">>, <<"Water", "rice">>}

(* apply_shopping_list_corrections that edits the list it was given.       *)
apply_shopping_list_corrections_InPlace(shopping_list, items) ==
  ShoppingList(shopping_list.meal_plan, shopping_list.guests,
               shopping_list.items \o items)

(* ai_service.apply_shopping_list_corrections: a new list around the items *)
(* of the answer, menu and guest counts taken from the list it was given.  *)
apply_shopping_list_corrections(shopping_list, items) ==
  ShoppingList(shopping_list.meal_plan, shopping_list.guests, items)

(* ApplyCorrections that leaves the loop after the round.                  *)
ApplyCorrections_LeavesLoop ==
  /\ pc = "correct"
  /\ \E items \in CorrectionAnswers :
       /\ ai_reply' = items
       /\ LET revised == apply_shopping_list_corrections(state.shopping_list, items)
          IN  state' = [state EXCEPT
                          !.shopping_list =
                             [revised EXCEPT !.grouped = build_grouped(revised.items)]]
  /\ approved' = FALSE
  /\ pc' = "deliver"
  /\ UNCHANGED <<event_data, tasks_service, ws, sent, review_seen, inbox,
                 local, gemini, dtask, runs, calls, skip_to_delivery,
                 prior_list, corrections, review_msg,
                 call, session, handler_vars>>

(* apply_corrections after the await: the revised list gets its group      *)
(* index and replaces the list of the state.                               *)
ApplyCorrections ==
  /\ pc = "correct"
  /\ \E items \in CorrectionAnswers :
       /\ ai_reply' = items
       /\ LET revised == apply_shopping_list_corrections(state.shopping_list, items)
          IN  state' = [state EXCEPT
                          !.shopping_list =
                             [revised EXCEPT !.grouped = build_grouped(revised.items)]]
  /\ approved' = FALSE
  /\ pc' = "review"
  /\ UNCHANGED <<event_data,
                 tasks_service, ws, sent, review_seen, inbox, local, gemini, dtask,
                 runs, calls, skip_to_delivery, prior_list, corrections,
                 review_msg,
                 call, session, handler_vars>>

ApplyCorrectionsRaises ==
  /\ pc = "correct"
  /\ Raise
  /\ UNCHANGED <<state, event_data,
                 tasks_service, ws, sent, review_seen, inbox, local, gemini, dtask,
                 runs, calls, approved, skip_to_delivery, prior_list, corrections,
                 review_msg, ai_reply,
                 call, session, handler_vars>>

(***************************************************************************)
(* Step 7: the delivery fan-out.  run_agent calls the step functions to    *)
(* build the coroutine list before gather runs any of them.  It passes     *)
(* create_google_sheet two positional arguments; the function in steps.py  *)
(* declares one parameter, so that call raises TypeError on the spot.      *)
(***************************************************************************)
create_google_sheet_params == 1
create_google_sheet_args == 2

CallRaisesTypeError(args, params) == args # params

DispatchedTasks(formats) ==
  [t \in DeliveryTasks |->
     IF t = "tasks" /\ GOOGLE_TASKS \notin formats THEN "none" ELSE "ready"]

DeliverDispatch ==
  /\ pc = "deliver"
  /\ ~(/\ GOOGLE_SHEET \in state.output_formats
       /\ CallRaisesTypeError(create_google_sheet_args, create_google_sheet_params))
  /\ _send("agent_progress", DELIVERING)
  /\ dtask' = DispatchedTasks(state.output_formats)
  /\ pc' = "deliver_wait"
  /\ UNCHANGED <<review_seen, state, event_data,
                 tasks_service, ws, inbox, local, gemini, runs, calls,
                 approved, skip_to_delivery, prior_list, corrections,
                 review_msg, ai_reply,
                 call, session, handler_vars>>

DeliverDispatchRaises ==
  /\ pc = "deliver"
  /\ GOOGLE_SHEET \in state.output_formats
  /\ CallRaisesTypeError(create_google_sheet_args, create_google_sheet_params)
  /\ _send("agent_progress", DELIVERING)
  /\ Raise
  /\ UNCHANGED <<review_seen, state, event_data,
                 tasks_service, ws, inbox, local, gemini, dtask, runs, calls,
                 approved, skip_to_delivery, prior_list, corrections,
                 review_msg, ai_reply,
                 call, session, handler_vars>>

(* format_chat_output: no await inside, it runs to its end when scheduled. *)
FormatChatOutput ==
  /\ pc = "deliver_wait"
  /\ dtask["chat"] = "ready"
  /\ state' = [state EXCEPT
                 !.stage = DELIVERING,
                 !.formatted_chat_output =
                    IF state.shopping_list.present THEN "shopping_list"
                    ELSE "no_list"]
  /\ dtask' = [dtask EXCEPT !["chat"] = "ok"]
  /\ UNCHANGED <<pc, event_data,
                 tasks_service, ws, sent, review_seen, inbox, local, gemini, runs,
                 calls, approved, skip_to_delivery, prior_list, corrections,
                 review_msg, ai_reply,
                 call, session, handler_vars>>

(* generate_recipes: the dishes it asks instructions for.                  *)
Eligible(dish_ingredients) ==
  SelectSeq(dish_ingredients,
            LAMBDA d : /\ d.serving_spec.dish_category \notin BEVERAGE_CATEGORIES
                       /\ ~_is_store_bought(d.dish))

(* generate_recipes up to its await: sets the stage, and is done at once   *)
(* when no dish is eligible.                                               *)
GenerateRecipesStart ==
  /\ pc = "deliver_wait"
  /\ dtask["chat"] # "ready"
  /\ dtask["recipes"] = "ready"
  /\ IF Eligible(state.dish_ingredients) = <<>>
     THEN /\ state' = [state EXCEPT !.stage = GENERATING_RECIPES,
                                    !.formatted_recipes_output = "none"]
          /\ dtask' = [dtask EXCEPT !["recipes"] = "ok"]
          /\ calls' = calls
     ELSE /\ state' = [state EXCEPT !.stage = GENERATING_RECIPES]
          /\ dtask' = [dtask EXCEPT !["recipes"] = "running"]
          /\ calls' = [calls EXCEPT !.recipes = @ + 1]
  /\ UNCHANGED <<pc, event_data,
                 tasks_service, ws, sent, review_seen, inbox, local, gemini, runs,
                 approved, skip_to_delivery, prior_list, corrections,
                 review_msg, ai_reply,
                 call, session, handler_vars>>

(* generate_recipe_instructions_batch returns or raises.                   *)
GenerateRecipesSettle ==
  /\ pc = "deliver_wait"
  /\ dtask["recipes"] = "running"
  /\ \/ /\ state' = [state EXCEPT !.formatted_recipes_output = "recipes"]
        /\ dtask' = [dtask EXCEPT !["recipes"] = "ok"]
     \/ /\ state' = state
        /\ dtask' = [dtask EXCEPT !["recipes"] = "failed"]
  /\ UNCHANGED <<pc, event_data,
                 tasks_service, ws, sent, review_seen, inbox, local, gemini, runs,
                 calls, approved, skip_to_delivery, prior_list, corrections,
                 review_msg, ai_reply,
                 call, session, handler_vars>>

(* create_google_tasks up to its await: without a service it skips.  The   *)
(* service is there when the session holds Google credentials.             *)
CreateGoogleTasksStart ==
  /\ pc = "deliver_wait"
  /\ dtask["recipes"] # "ready"
  /\ dtask["tasks"] = "ready"
  /\ \E svc \in BOOLEAN :
       /\ tasks_service' = svc
       /\ IF ~svc
          THEN /\ state' = [state EXCEPT !.google_tasks_url = "none"]
               /\ dtask' = [dtask EXCEPT !["tasks"] = "ok"]
          ELSE /\ state' = state
               /\ dtask' = [dtask EXCEPT !["tasks"] = "running"]
  /\ UNCHANGED <<pc, event_data, ws, sent, review_seen, inbox, local, gemini,
                 runs, calls, approved, skip_to_delivery, prior_list, corrections,
                 review_msg, ai_reply,
                 call, session, handler_vars>>

(* tasks_service.create_shopping_list returns or raises.                   *)
CreateGoogleTasksSettle ==
  /\ pc = "deliver_wait"
  /\ dtask["tasks"] = "running"
  /\ \/ /\ state' = [state EXCEPT !.google_tasks = "result"]
        /\ dtask' = [dtask EXCEPT !["tasks"] = "ok"]
     \/ /\ state' = state
        /\ dtask' = [dtask EXCEPT !["tasks"] = "failed"]
  /\ UNCHANGED <<pc, event_data,
                 tasks_service, ws, sent, review_seen, inbox, local, gemini, runs,
                 calls, approved, skip_to_delivery, prior_list, corrections,
                 review_msg, ai_reply,
                 call, session, handler_vars>>

Settled(status) == status \in {"none", "ok", "failed"}

(* gather has returned: every result that is not an exception is the one   *)
(* state object the tasks worked on, so the merge changes nothing.  Step   *)
(* 8: COMPLETE, agent_complete, return; websocket_chat keeps the state.    *)
DeliverJoin ==
  /\ pc = "deliver_wait"
  /\ \A t \in DeliveryTasks : Settled(dtask[t])
  /\ state' = [state EXCEPT !.stage = COMPLETE]
  /\ _send("agent_complete", COMPLETE)
  /\ pc' = "idle"
  /\ review_msg' = "none"
  /\ ai_reply' = <<>>
  /\ UNCHANGED <<review_seen, event_data, tasks_service, ws, inbox, local, gemini, dtask,
                 runs, calls, approved, skip_to_delivery, prior_list, corrections,
                 call, session, handler_vars>>

(* ExceptHandler that returns without recording the error text.           *)
ExceptHandler_NoErrorText ==
  /\ pc = "except"
  /\ state' = [state EXCEPT !.stage = ERROR]
  /\ _send("agent_error", ERROR)
  /\ pc' = "idle"
  /\ review_msg' = "none"
  /\ ai_reply' = <<>>
  /\ UNCHANGED <<review_seen, event_data, tasks_service, ws, inbox, local,
                 gemini, dtask, runs, calls, approved, skip_to_delivery,
                 prior_list, corrections,
                 call, session, handler_vars>>

(***************************************************************************)
(* except Exception: ERROR, the error text, agent_error, return.           *)
(***************************************************************************)
ExceptHandler ==
  /\ pc = "except"
  /\ state' = [state EXCEPT !.stage = ERROR, !.error = "exc"]
  /\ _send("agent_error", ERROR)
  /\ pc' = "idle"
  /\ review_msg' = "none"
  /\ ai_reply' = <<>>
  /\ UNCHANGED <<review_seen, event_data, tasks_service, ws, inbox, local, gemini, dtask,
                 runs, calls, approved, skip_to_delivery, prior_list, corrections,
                 call, session, handler_vars>>

(***************************************************************************)
(* The peer goes away while a run is in progress.                          *)
(***************************************************************************)
Sever ==
  /\ pc # "idle"
  /\ ws = "open"
  /\ ws' = "severed"
  /\ UNCHANGED <<pc, state, event_data, tasks_service, sent, review_seen, inbox, local,
                 gemini, dtask, runs, calls, approved, skip_to_delivery, prior_list, corrections,
                 review_msg, ai_reply,
                 call, session, handler_vars>>

Next ==
  \/ Invoke
  \/ CalcQuantities
  \/ CalcQuantitiesRaises
  \/ EnrichDispatch
  \/ EnrichSettle
  \/ EnrichJoin
  \/ Aggregate
  \/ AggregateRaises
  \/ ReviewPublish
  \/ HumanResponds
  \/ ReviewApprove
  \/ ReviewBlank
  \/ ReviewCorrections
  \/ ReviewReceiveRaises
  \/ ApplyCorrections
  \/ ApplyCorrectionsRaises
  \/ DeliverDispatch
  \/ DeliverDispatchRaises
  \/ FormatChatOutput
  \/ GenerateRecipesStart
  \/ GenerateRecipesSettle
  \/ CreateGoogleTasksStart
  \/ CreateGoogleTasksSettle
  \/ DeliverJoin
  \/ ExceptHandler
  \/ Sever

Spec == Init /\ [][Next]_vars

(***************************************************************************)
(* The steps run_agent and its collaborators take on their own: all but    *)
(* the caller invoking a run, the human answering and the peer going away. *)
(* A run is not suspended for ever while one of them is possible.          *)
(***************************************************************************)
ProgramStep ==
  \/ CalcQuantities
  \/ CalcQuantitiesRaises
  \/ EnrichDispatch
  \/ EnrichSettle
  \/ EnrichJoin
  \/ Aggregate
  \/ AggregateRaises
  \/ ReviewPublish
  \/ ReviewApprove
  \/ ReviewBlank
  \/ ReviewCorrections
  \/ ReviewReceiveRaises
  \/ ApplyCorrections
  \/ ApplyCorrectionsRaises
  \/ DeliverDispatch
  \/ DeliverDispatchRaises
  \/ FormatChatOutput
  \/ GenerateRecipesStart
  \/ GenerateRecipesSettle
  \/ CreateGoogleTasksStart
  \/ CreateGoogleTasksSettle
  \/ DeliverJoin
  \/ ExceptHandler

FairSpec == Spec /\ WF_vars(ProgramStep)

TypeOK ==
  /\ pc \in {"idle", "calc", "enrich", "enrich_wait", "aggregate", "review",
             "receive", "correct", "deliver", "deliver_wait", "except"}
  /\ ws \in {"open", "severed"}
  /\ runs \in 0..MaxRuns

(***************************************************************************)
(* The library functions, called on their own: the quantity engine         *)
(* (services/quantity_engine.py) and the scaling of a base recipe          *)
(* (agent/steps.py).  Each call is drawn from the inputs below, and call   *)
(* holds the function, its arguments and what it returned.                 *)
(***************************************************************************)
run_agent_vars ==
  <<pc, state, event_data, tasks_service, ws, sent, review_seen, inbox, local,
    gemini, dtask, runs, calls, approved, skip_to_delivery, prior_list,
    corrections, review_msg, ai_reply>>

DishNames == {"ribs", "rice"}

(* dict[str, DishCategory]: a category for some of the dish names.         *)
CategoryMappings == UNION {[named -> DishCategory] : named \in SUBSET DishNames}

(* Recipe.servings is an int without a constraint; 0 is falsy.             *)
RecipeServings == {-2, 0, 2, 3}

(* Ingredient lines of a base recipe, quantities in hundredths.            *)
LineQuantities == {50, 125, 200}
IngredientLines == [name : {"Garlic", "rice"}, quantity : LineQuantities]

BaseRecipes ==
  [servings : RecipeServings,
   ingredients : {lines \in SeqsUpTo(IngredientLines, MaxLines) : Len(lines) >= 1}]

(***************************************************************************)
(* round(x, 2) of x = num / den hundredths, den > 0: the nearest whole     *)
(* number of hundredths.  x is computed in binary floating point, so a     *)
(* value half way between two neighbours may come out on either side.      *)
(***************************************************************************)
round(num, den) ==
  LET floor == num \div den
      rest == num % den
  IN  IF 2 * rest < den THEN {floor}
      ELSE IF 2 * rest > den THEN {floor + 1}
           ELSE {floor, floor + 1}

(* _scale_recipe_in_python without the default of 4 servings.             *)
_scale_recipe_in_python_NoDefault(recipe, spec) ==
  LET base_servings == recipe.servings
      scaled(ing) ==
        IF base_servings > 0
        THEN round(ing.quantity * spec.total_servings, 100 * base_servings)
        ELSE {ing.quantity}
      n == Len(recipe.ingredients)
      quantities ==
        {q \in [1..n -> UNION {scaled(recipe.ingredients[i]) : i \in 1..n}] :
           \A i \in 1..n : q[i] \in scaled(recipe.ingredients[i])}
  IN  {[dish |-> spec.dish,
        serving_spec |-> spec,
        ingredients |->
          [i \in 1..n |-> [recipe.ingredients[i] EXCEPT !.quantity = q[i]]]] :
         q \in quantities}

(***************************************************************************)
(* _scale_recipe_in_python: the DishIngredients it can return.             *)
(* base_servings = recipe.servings or 4; factor = total_servings /         *)
(* base_servings if base_servings > 0 else 1.0; every line is copied with  *)
(* quantity = round(quantity * factor, 2).                                 *)
(***************************************************************************)
_scale_recipe_in_python(recipe, spec) ==
  LET base_servings == IF recipe.servings = 0 THEN 4 ELSE recipe.servings
      scaled(ing) ==
        IF base_servings > 0
        THEN round(ing.quantity * spec.total_servings, 100 * base_servings)
        ELSE {ing.quantity}
      n == Len(recipe.ingredients)
      quantities ==
        {q \in [1..n -> UNION {scaled(recipe.ingredients[i]) : i \in 1..n}] :
           \A i \in 1..n : q[i] \in scaled(recipe.ingredients[i])}
  IN  {[dish |-> spec.dish,
        serving_spec |-> spec,
        ingredients |->
          [i \in 1..n |-> [recipe.ingredients[i] EXCEPT !.quantity = q[i]]]] :
         q \in quantities}

CallDishServingSpec ==
  /\ call.fn = "none"
  /\ \E dish_category \in DishCategory,
        adult_count \in 0..MaxAdults, child_count \in 0..MaxChildren :
       call' =
         [fn |-> "calculate_dish_serving_spec",
          args |-> [dish_name |-> "ribs", dish_category |-> dish_category,
                    adult_count |-> adult_count, child_count |-> child_count],
          result |-> calculate_dish_serving_spec("ribs", dish_category,
                                                 adult_count, child_count)]
  /\ UNCHANGED <<run_agent_vars, session, handler_vars>>

CallAllServingSpecs ==
  /\ call.fn = "none"
  /\ \E meal_plan \in SeqsUpTo(DishNames, MaxDishes),
        dish_categories \in CategoryMappings,
        adult_count \in 0..MaxAdults, child_count \in 0..MaxChildren :
       call' =
         [fn |-> "calculate_all_serving_specs",
          args |-> [meal_plan |-> meal_plan, dish_categories |-> dish_categories,
                    adult_count |-> adult_count, child_count |-> child_count],
          result |-> calculate_all_serving_specs(meal_plan, dish_categories,
                                                 adult_count, child_count)]
  /\ UNCHANGED <<run_agent_vars, session, handler_vars>>

CallScaleRecipe ==
  /\ call.fn = "none"
  /\ \E recipe \in BaseRecipes, dish_category \in DishCategory,
        adult_count \in 0..MaxAdults, child_count \in 0..MaxChildren :
       LET spec == calculate_dish_serving_spec("ribs", dish_category,
                                               adult_count, child_count)
       IN  \E result \in _scale_recipe_in_python(recipe, spec) :
             call' = [fn |-> "_scale_recipe_in_python",
                      args |-> [recipe |-> recipe, spec |-> spec],
                      result |-> result]
  /\ UNCHANGED <<run_agent_vars, session, handler_vars>>

(* Items as the AI service returns them; a name may occur more than once. *)
ItemNames == {"Garlic", "Salt", " Water", "rice"}

CallBuildGrouped ==
  /\ call.fn = "none"
  /\ \E items \in SeqsUpTo(ItemNames, MaxItems) :
       call' = [fn |-> "build_grouped",
                args |-> [items |-> items],
                result |-> build_grouped(items)]
  /\ UNCHANGED <<run_agent_vars, session, handler_vars>>

(* The call returns to its caller.                                         *)
ReturnFromCall ==
  /\ call.fn # "none"
  /\ call' = NoCall
  /\ UNCHANGED <<run_agent_vars, session, handler_vars>>

QuantityInit ==
  /\ event_data = <<[sb |-> FALSE, rec |-> TRUE]>>
  /\ AgentAtRest
  /\ call = NoCall
  /\ session = NewEventData
  /\ HandlerAtRest

QuantityNext ==
  \/ CallDishServingSpec
  \/ CallAllServingSpecs
  \/ CallScaleRecipe
  \/ CallBuildGrouped
  \/ ReturnFromCall

QuantitySpec == QuantityInit /\ [][QuantityNext]_vars

(***************************************************************************)
(* The conversation (main.py): apply_extraction on the session's event     *)
(* data, the select_outputs message, and what the WebSocket handler does   *)
(* after either.                                                           *)
(***************************************************************************)
PLACEHOLDER == "placeholder"
NAMED == "named"
RecipeStatus == {PLACEHOLDER, NAMED, COMPLETE}

(* CONVERSATION_QUESTIONS["critical"]: the only category there is.         *)
CriticalQuestions ==
  {"event_type", "guest_count", "guest_breakdown", "dietary", "cuisine", "meal_plan"}

(* Recipe(name, status, awaiting_user_input) with the other fields at      *)
(* their defaults: homemade, no ingredients.                               *)
NewRecipe(name, status, awaiting_user_input) ==
  [name |-> name, status |-> status, awaiting_user_input |-> awaiting_user_input,
   store_bought |-> FALSE, has_ingredients |-> FALSE]

(* MealPlan.find_recipe: the index of the first recipe of that name,       *)
(* whatever the case of the letters; 0 for None.                           *)
find_recipe(recipes, name) ==
  LET found == {i \in 1..Len(recipes) : Lower(recipes[i].name) = Lower(name)}
  IN  IF found = {} THEN 0 ELSE CHOOSE i \in found : \A j \in found : i <= j

add_recipe(recipes, recipe) ==
  IF find_recipe(recipes, recipe.name) = 0 THEN Append(recipes, recipe) ELSE recipes

remove_recipe(recipes, name) ==
  SelectSeq(recipes, LAMBDA r : Lower(r.name) # Lower(name))

is_complete_recipe(recipe) ==
  IF recipe.store_bought
  THEN recipe.status # PLACEHOLDER
  ELSE recipe.status = COMPLETE /\ recipe.has_ingredients

(* MealPlan.is_complete                                                    *)
MealPlanIsComplete(meal_plan) ==
  /\ meal_plan.confirmed
  /\ \A i \in 1..Len(meal_plan.recipes) : is_complete_recipe(meal_plan.recipes[i])

(***************************************************************************)
(* What the AI service can extract from a message.  The fields of a recipe *)
(* update that are not None, as model_dump(exclude_none=True) leaves them: *)
(***************************************************************************)
UpdateFields ==
  {<<>>,
   [awaiting_user_input |-> TRUE],
   [awaiting_user_input |-> FALSE],
   [status |-> COMPLETE, has_ingredients |-> TRUE],
   [store_bought |-> TRUE]}

RecipeUpdates ==
  {[action |-> "add", recipe_name |-> name, fields |-> fields] :
     name \in DishNames, fields \in {<<>>, [awaiting_user_input |-> TRUE]}}
  \cup {[action |-> "remove", recipe_name |-> "Ribs", fields |-> <<>>]}
  \cup {[action |-> "update", recipe_name |-> "Ribs", fields |-> fields] :
          fields \in UpdateFields \ {<<>>}}
  \cup {[action |-> "update", recipe_name |-> "rice", fields |-> fields] :
          fields \in {[awaiting_user_input |-> FALSE],
                      [status |-> COMPLETE, has_ingredients |-> TRUE]}}

AnsweredInputs ==
  {{}, CriticalQuestions \ {"meal_plan"}, {"meal_plan", "seating"}}

FormatInputs == {<<>>, <<"fax_machine">>, <<GOOGLE_TASKS, "fax_machine">>}

ExtractionResult ==
  [recipe_updates : {<<>>} \cup {<<u>> : u \in RecipeUpdates},
   answered_questions : AnsweredInputs,
   meal_plan_confirmed : BOOLEAN,
   output_formats : FormatInputs]

(* One recipe update applied to the recipes of the meal plan.              *)
ApplyRecipeUpdate(recipes, update) ==
  CASE update.action = "add" ->
         add_recipe(recipes,
                    NewRecipe(update.recipe_name,
                              IF "status" \in DOMAIN update.fields
                              THEN update.fields.status ELSE NAMED,
                              IF "awaiting_user_input" \in DOMAIN update.fields
                              THEN update.fields.awaiting_user_input ELSE FALSE))
    [] update.action = "remove" -> remove_recipe(recipes, update.recipe_name)
    [] update.action = "update" ->
         LET idx == find_recipe(recipes, update.recipe_name)
         IN  IF idx = 0 THEN recipes
             ELSE [recipes EXCEPT
                     ![idx] = [f \in DOMAIN recipes[idx] |->
                                 IF f \in DOMAIN update.fields
                                 THEN update.fields[f] ELSE recipes[idx][f]]]

RECURSIVE ApplyRecipeUpdates(_, _, _)
ApplyRecipeUpdates(recipes, updates, n) ==
  IF n = 0 THEN recipes
  ELSE ApplyRecipeUpdate(ApplyRecipeUpdates(recipes, updates, n - 1), updates[n])

(* _compute_completion_score that does not look for pending recipes.       *)
_compute_completion_score_IgnoresPending(data) ==
  [data EXCEPT
     !.is_complete =
        /\ \A q \in CriticalQuestions : q \in data.answered_questions
        /\ Len(data.meal_plan.recipes) > 0
        /\ data.meal_plan.confirmed]

(* _compute_completion_score, the is_complete it leaves.                   *)
_compute_completion_score(data) ==
  LET recipes == data.meal_plan.recipes
      all_critical_answered ==
        \A q \in CriticalQuestions : q \in data.answered_questions
      has_recipes == Len(recipes) > 0
      has_unresolved_recipes ==
        \E i \in 1..Len(recipes) : recipes[i].awaiting_user_input
  IN  [data EXCEPT
         !.is_complete =
            /\ all_critical_answered
            /\ has_recipes
            /\ data.meal_plan.confirmed
            /\ ~has_unresolved_recipes]

(* StageTransition with three independent ifs in place of the elif chain:  *)
(* a stage reached by one test is tested again by the next.                *)
StageTransition_FallsThrough(data) ==
  LET first == IF data.conversation_stage = "gathering" /\ data.is_complete
               THEN "recipe_confirmation" ELSE data.conversation_stage
      second == IF first = "recipe_confirmation"
                   /\ MealPlanIsComplete(data.meal_plan)
                THEN "selecting_output" ELSE first
  IN  IF second = "selecting_output" /\ Len(data.output_formats) > 0
      THEN "agent_running" ELSE second

(* The stage transitions at the end of apply_extraction.                   *)
StageTransition(data) ==
  LET stage == data.conversation_stage
  IN  IF stage = "gathering" /\ data.is_complete
      THEN "recipe_confirmation"
      ELSE IF stage = "recipe_confirmation"
           THEN IF MealPlanIsComplete(data.meal_plan)
                THEN "selecting_output" ELSE stage
           ELSE IF stage = "selecting_output"
                THEN IF Len(data.output_formats) > 0
                     THEN "agent_running" ELSE stage
                ELSE stage

(* The output formats of a list of names: the names OutputFormat knows.    *)
ValidFormats(formats) == SelectSeq(formats, LAMBDA f : f \in OutputFormat)

(* apply_extraction that takes the output formats in whatever stage.       *)
apply_extraction_AnyStage(data, extraction) ==
  LET updates == extraction.recipe_updates
      changed == \E i \in 1..Len(updates) : updates[i].action \in {"add", "remove"}
      recipes == ApplyRecipeUpdates(data.meal_plan.recipes, updates, Len(updates))
      marked == data.answered_questions
                  \cup (extraction.answered_questions \cap CriticalQuestions)
      reset == IF changed THEN marked \ {"meal_plan"} ELSE marked
      answered == IF extraction.meal_plan_confirmed /\ Len(recipes) > 0
                  THEN reset \cup {"meal_plan"} ELSE reset
      confirmed == IF extraction.meal_plan_confirmed THEN TRUE
                   ELSE IF changed THEN FALSE ELSE data.meal_plan.confirmed
      output_formats ==
        IF extraction.output_formats # <<>>
        THEN ValidFormats(extraction.output_formats)
        ELSE data.output_formats
      applied == _compute_completion_score(
                   [data EXCEPT
                      !.meal_plan = [recipes |-> recipes, confirmed |-> confirmed],
                      !.answered_questions = answered,
                      !.output_formats = output_formats])
  IN  [applied EXCEPT !.conversation_stage = StageTransition(applied)]

(***************************************************************************)
(* apply_extraction: recipe updates, answered questions, the meal-plan     *)
(* confirmation (reset by an add or a remove, set by meal_plan_confirmed), *)
(* the output formats (only in selecting_output), the completion, the      *)
(* stage transition.                                                       *)
(***************************************************************************)
apply_extraction(data, extraction) ==
  LET updates == extraction.recipe_updates
      changed == \E i \in 1..Len(updates) : updates[i].action \in {"add", "remove"}
      recipes == ApplyRecipeUpdates(data.meal_plan.recipes, updates, Len(updates))
      marked == data.answered_questions
                  \cup (extraction.answered_questions \cap CriticalQuestions)
      reset == IF changed THEN marked \ {"meal_plan"} ELSE marked
      answered == IF extraction.meal_plan_confirmed /\ Len(recipes) > 0
                  THEN reset \cup {"meal_plan"} ELSE reset
      confirmed == IF extraction.meal_plan_confirmed THEN TRUE
                   ELSE IF changed THEN FALSE ELSE data.meal_plan.confirmed
      output_formats ==
        IF extraction.output_formats # <<>>
             /\ data.conversation_stage = "selecting_output"
        THEN ValidFormats(extraction.output_formats)
        ELSE data.output_formats
      applied == _compute_completion_score(
                   [data EXCEPT
                      !.meal_plan = [recipes |-> recipes, confirmed |-> confirmed],
                      !.answered_questions = answered,
                      !.output_formats = output_formats])
  IN  [applied EXCEPT !.conversation_stage = StageTransition(applied)]

(* A "message": the AI service extracts, apply_extraction applies.         *)
ApplyExtraction ==
  /\ call.fn = "none"
  /\ \E extraction \in ExtractionResult :
       /\ call' = [fn |-> "apply_extraction",
                   args |-> [event_data |-> session, extraction |-> extraction],
                   result |-> <<>>]
       /\ session' = apply_extraction(session, extraction)
  /\ UNCHANGED <<run_agent_vars, handler_vars>>

(* A "select_outputs" message: the valid formats, if there are any, are    *)
(* stored and the stage becomes agent_running.                             *)
SelectOutputs ==
  /\ call.fn = "none"
  /\ \E formats \in FormatInputs :
       /\ call' = [fn |-> "select_outputs",
                   args |-> [event_data |-> session, formats |-> formats],
                   result |-> <<>>]
       /\ session' =
            IF ValidFormats(formats) # <<>>
            THEN [session EXCEPT !.output_formats = ValidFormats(formats),
                                 !.conversation_stage = "agent_running"]
            ELSE session
  /\ UNCHANGED <<run_agent_vars, handler_vars>>

(* generate_default_recipes_batch for the recipes that need ingredients.   *)
AutoGenerated(recipes) ==
  [i \in 1..Len(recipes) |->
     IF /\ ~recipes[i].has_ingredients
        /\ ~recipes[i].awaiting_user_input
        /\ recipes[i].status # PLACEHOLDER
        /\ ~recipes[i].store_bought
     THEN [recipes[i] EXCEPT !.has_ingredients = TRUE, !.status = COMPLETE]
     ELSE recipes[i]]

(***************************************************************************)
(* What run_agent can return to the handler: COMPLETE with a shopping      *)
(* list, or ERROR with or without one.  A list the prior state holds is    *)
(* still there in the state returned.                                      *)
(***************************************************************************)
RunAgentReturns(existing_state) ==
  {r \in [stage : {COMPLETE, ERROR}, shopping_list : BOOLEAN] :
     /\ r.stage = COMPLETE => r.shopping_list
     /\ existing_state.shopping_list => r.shopping_list}

(***************************************************************************)
(* The rest of the handler.  After a message in recipe_confirmation the    *)
(* default ingredient lists are generated, unless the AI service fails.    *)
(* In agent_running the handler either waits for Google authorization or   *)
(* runs the agent, marks the conversation complete and saves a plan        *)
(* snapshot when the returned state holds a shopping list.  Every path     *)
(* ends with save_session on the handler's own SessionData.                *)
(***************************************************************************)
HandlerTail ==
  /\ call.fn \in {"apply_extraction", "select_outputs"}
  /\ call' = NoCall
  /\ IF session.conversation_stage = "agent_running"
     THEN \E oauth_configured \in BOOLEAN :
            LET needs_google_auth ==
                  /\ oauth_configured
                  /\ \E i \in 1..Len(session.output_formats) :
                        session.output_formats[i] = GOOGLE_TASKS
                  /\ google_credentials = "none"
            IN  IF needs_google_auth
                THEN /\ session' = session
                     /\ UNCHANGED <<agent_state, plans>>
                ELSE /\ plans < MaxPlans
                     /\ \E returned \in RunAgentReturns(agent_state) :
                          /\ agent_state' = returned
                          /\ plans' = IF returned.shopping_list
                                      THEN plans + 1 ELSE plans
                     /\ session' =
                          [session EXCEPT !.conversation_stage = "complete"]
     ELSE /\ UNCHANGED <<agent_state, plans>>
          /\ IF call.fn = "apply_extraction"
                /\ session.conversation_stage = "recipe_confirmation"
             THEN \E generated \in BOOLEAN :
                    session' =
                      IF generated
                      THEN _compute_completion_score(
                             [session EXCEPT
                                !.meal_plan.recipes = AutoGenerated(@)])
                      ELSE session
             ELSE session' = session
  /\ row' = save_session(session', google_credentials)
  /\ UNCHANGED <<run_agent_vars, google_credentials>>

(***************************************************************************)
(* google_auth_callback: loads the session from its row, stores the        *)
(* credentials on it and saves it.                                         *)
(***************************************************************************)
GoogleAuthCallback ==
  /\ row' = save_session(row.event_data, "token")
  /\ UNCHANGED <<run_agent_vars, call, session, google_credentials,
                 agent_state, plans>>

(***************************************************************************)
(* websocket_chat up to its loop: a new connection loads the session from  *)
(* its row; agent_state is not stored and starts as None.                  *)
(***************************************************************************)
Reconnect ==
  /\ call.fn = "none"
  /\ session' = row.event_data
  /\ google_credentials' = row.google_task_credentials
  /\ agent_state' = NoAgentState
  /\ UNCHANGED <<run_agent_vars, call, row, plans>>

ChatInit ==
  /\ event_data = <<[sb |-> FALSE, rec |-> TRUE]>>
  /\ AgentAtRest
  /\ call = NoCall
  /\ session = NewEventData
  /\ HandlerAtRest

ChatNext ==
  \/ ApplyExtraction
  \/ SelectOutputs
  \/ HandlerTail

ChatSpec == ChatInit /\ [][ChatNext]_vars

(***************************************************************************)
(* The hand-off on its own: a client that sends select_outputs messages,   *)
(* the OAuth callback of the same session, and new connections.            *)
(***************************************************************************)
HandoffNext ==
  \/ SelectOutputs
  \/ HandlerTail
  \/ GoogleAuthCallback
  \/ Reconnect

HandoffSpec == ChatInit /\ [][HandoffNext]_vars

(***************************************************************************)
(*                              The claims                                 *)
(***************************************************************************)
Failed(tasks) == {i \in 1..Len(tasks) : tasks[i].status = "failed"}

Dishes(dish_ingredients) ==
  {dish_ingredients[i].dish : i \in 1..Len(dish_ingredients)}

CountType(log, type) == Cardinality({i \in 1..Len(log) : log[i].type = type})

CountStage(log, stage) ==
  Cardinality({i \in 1..Len(log) : log[i].stage = stage})

(* C1: whatever delegated enrichment calls fail, and in whatever order the *)
(* calls settle, get_all_dish_ingredients returns without raising: the     *)
(* step that leaves the fan-out leads to aggregation, never to the error   *)
(* handler, and dish_ingredients then holds exactly one entry for every    *)
(* serving spec whose call did not fail (length = specs minus failures).   *)
C1_FailedDishesDropped ==
  [][pc = "enrich_wait" /\ pc' # "enrich_wait" =>
       /\ pc' = "aggregate"
       /\ state'.stage = GETTING_INGREDIENTS
       /\ Len(state'.dish_ingredients) =
            Len(state.serving_specs) - Cardinality(Failed(gemini))
       /\ Cardinality(Dishes(state'.dish_ingredients)) =
            Len(state'.dish_ingredients)
       /\ Dishes(state'.dish_ingredients) =
            (1..Len(state.serving_specs))
              \ {gemini[i].spec.dish : i \in Failed(gemini)}]_vars

(* C1 witness: two dishes were delegated, one call failed, and the run     *)
(* stands before aggregation with the one remaining entry.                 *)
C1_Witness ==
  /\ pc = "aggregate"
  /\ Len(gemini) = 2
  /\ Cardinality(Failed(gemini)) = 1
  /\ Len(state.dish_ingredients) = 1

(* C3: in a run handed a prior state that has a shopping list, no          *)
(* notification carries one of the skipped stages, and the first           *)
(* notification the run publishes is the DELIVERING progress message.      *)
SkippedStages ==
  {CALCULATING_QUANTITIES, GETTING_INGREDIENTS, AGGREGATING, AWAITING_REVIEW,
   APPLYING_CORRECTIONS}

C3_ReentrySkipsToDelivery ==
  prior_list =>
    /\ \A i \in 1..Len(sent) : sent[i].stage \notin SkippedStages
    /\ sent # <<>> => sent[1] = Message("agent_progress", DELIVERING)
    /\ pc \in {"deliver_wait", "except"} => sent # <<>>
    /\ pc \notin {"calc", "enrich", "enrich_wait", "aggregate", "review",
                  "receive", "correct"}

(* C3 witness: a re-entry run has published its DELIVERING message and     *)
(* dispatched the delivery tasks.                                          *)
C3_Witness ==
  /\ prior_list
  /\ pc = "deliver_wait"
  /\ Len(sent) = 1

(* C4: when the review loop is left by an approval, the shopping list has  *)
(* been published once more than the human sent correction messages, and   *)
(* apply_corrections was called once per correction message; a correction  *)
(* message never ends the loop (it leads to a correction round), and the   *)
(* loop is left for delivery only on an approval or a blank message.       *)
C4_ReviewLoopRounds ==
  /\ [](pc = "deliver" /\ ~prior_list =>
          /\ CountType(sent, "agent_review") = corrections + 1
          /\ calls.correct = corrections)
  /\ [][pc = "receive" /\ pc' # "receive" /\ inbox = "corrections" =>
          pc' = "correct"]_vars
  /\ [][(pc = "correct" /\ pc' \notin {"correct", "except"}) => pc' = "review"
       ]_vars
  /\ [][(pc \in {"review", "receive", "correct"} /\ pc' = "deliver") =>
          (pc = "receive" /\ inbox \in {"approve", "approve_excluding",
                                      "approve_excluding_unmatched", "blank",
                                      "whitespace"})
       ]_vars

(* C4 witness: the loop was left by an approval after two correction       *)
(* rounds and three publications of the list.                              *)
C4_Witness ==
  /\ pc = "deliver"
  /\ ~prior_list
  /\ corrections = 2
  /\ CountType(sent, "agent_review") = 3

(* C2: a run that was asked for the spreadsheet format and got as far as   *)
(* the delivery stage returns with stage COMPLETE and a populated          *)
(* formatted_chat_output, whatever becomes of the spreadsheet task.        *)
C2_SheetFailureIsolated ==
  (/\ pc = "idle"
   /\ runs > 0
   /\ GOOGLE_SHEET \in state.output_formats
   /\ CountStage(sent, DELIVERING) > 0)
    => (state.stage = COMPLETE /\ state.formatted_chat_output # "none")

(* C5: the stage is always one of the nine stage constants, and every      *)
(* change of the stage during a run is an edge of the stated machine.      *)
StageEdges ==
  {<<IDLE, CALCULATING_QUANTITIES>>,
   <<CALCULATING_QUANTITIES, GETTING_INGREDIENTS>>,
   <<GETTING_INGREDIENTS, AGGREGATING>>,
   <<AGGREGATING, AWAITING_REVIEW>>,
   <<AWAITING_REVIEW, APPLYING_CORRECTIONS>>,
   <<APPLYING_CORRECTIONS, AWAITING_REVIEW>>,
   <<AWAITING_REVIEW, DELIVERING>>,
   <<DELIVERING, COMPLETE>>}
    \cup {<<s, ERROR>> : s \in AgentStage}

C5_StageMachine ==
  /\ [](state.stage \in AgentStage)
  /\ [][(pc # "idle" /\ state'.stage # state.stage) =>
          <<state.stage, state'.stage>> \in StageEdges]_vars

(* C6: once a sequential stage has raised, nothing happens in the run but  *)
(* the handler: no collaborator is called and no delivery task starts or   *)
(* moves; the handler sets stage ERROR, records the error, publishes one   *)
(* agent_error notification and returns the state, so a returned run is in *)
(* COMPLETE or ERROR, and in ERROR its last and only agent_error message   *)
(* is the handler's.                                                       *)
C6_HandlerCatchesAll ==
  /\ [][pc = "except" =>
          \/ /\ pc' = "except"
             /\ UNCHANGED <<state, sent, dtask, calls, gemini>>
          \/ /\ pc' = "idle"
             /\ state' = [state EXCEPT !.stage = ERROR, !.error = "exc"]
             /\ state'.error # "none"
             /\ sent' = Append(sent, Message("agent_error", ERROR))
             /\ UNCHANGED <<dtask, calls, gemini>>]_vars
  /\ [](pc = "idle" /\ runs > 0 =>
          /\ state.stage \in {COMPLETE, ERROR}
          /\ state.stage = ERROR =>
               /\ CountType(sent, "agent_error") = 1
               /\ sent[Len(sent)].type = "agent_error"
               /\ CountType(sent, "agent_complete") = 0)

(* C6 witness: aggregation raised after a dish classification and an       *)
(* enrichment that went through, and the run has returned in ERROR with    *)
(* no shopping list and no delivery task started.                          *)
C6_Witness ==
  /\ pc = "idle"
  /\ state.stage = ERROR
  /\ state.error # "none"
  /\ calls.aggregate = 1
  /\ ~state.shopping_list.present
  /\ dtask = NoTasks

(* C7: the delivery tasks are only ever dispatched for a shopping list the *)
(* human has approved.                                                     *)
C7_DeliveryAfterApproval == pc = "deliver_wait" => approved

(* C8: a run that has returned published exactly one terminal              *)
(* notification, as its last message, agent_complete in COMPLETE and       *)
(* agent_error in ERROR; and whenever the stage changes during a run, a    *)
(* notification carrying the new stage has been published in that run.     *)
C8_TerminalAndAnnounced ==
  /\ [](pc = "idle" /\ runs > 0 =>
          /\ CountType(sent, "agent_complete") + CountType(sent, "agent_error") = 1
          /\ sent[Len(sent)].type =
               (IF state.stage = COMPLETE THEN "agent_complete" ELSE "agent_error")
          /\ state.stage \in {COMPLETE, ERROR})
  /\ [][(pc # "idle" /\ state'.stage # state.stage) =>
          CountStage(sent', state'.stage) > 0]_vars

(* C9: a run whose review notification did not reach the human does not    *)
(* stay at the review checkpoint.                                          *)
C9_NoSilentHang == (pc = "receive" /\ ~review_seen) ~> (pc # "receive")

(* C10: a run during which the connection was severed returns in stage     *)
(* ERROR, and no delivery task is dispatched on a severed connection.      *)
C10_SeveredRunEndsInError ==
  /\ [](pc = "idle" /\ runs > 0 /\ ws = "severed" => state.stage = ERROR)
  /\ [][(ws = "severed" /\ pc = "deliver") => pc' # "deliver_wait"]_vars

(* C11: the step that leaves the delivery dispatch starts the fan-out, and *)
(* the formatted-text task and the task-list task are dispatched exactly   *)
(* when their format was requested (a requested spreadsheet too has its    *)
(* task dispatched rather than the dispatch failing).                      *)
C11_OneTaskPerFormat ==
  [][(pc = "deliver" /\ pc' # "deliver") =>
       /\ pc' = "deliver_wait"
       /\ (dtask'["chat"] = "ready") <=> (IN_CHAT \in state.output_formats)
       /\ (dtask'["tasks"] = "ready") <=> (GOOGLE_TASKS \in state.output_formats)
    ]_vars

(* C12: in a run that returned COMPLETE, a channel whose task failed has   *)
(* its output field unset and a channel whose task succeeded has it        *)
(* populated.                                                              *)
ChannelOutput(t) ==
  CASE t = "chat" -> state.formatted_chat_output
    [] t = "recipes" -> state.formatted_recipes_output
    [] t = "tasks" -> state.google_tasks

C12_FailedChannelsUnset ==
  (pc = "idle" /\ runs > 0 /\ state.stage = COMPLETE) =>
    \A t \in DeliveryTasks :
      /\ dtask[t] = "failed" => ChannelOutput(t) = "none"
      /\ dtask[t] = "ok" => ChannelOutput(t) # "none"

(* C13: a returned state carries an error exactly when its stage is ERROR. *)
C13_ErrorIffErrorStage ==
  (pc = "idle" /\ runs > 0) => ((state.error # "none") <=> (state.stage = ERROR))

(* C14: an approval leaves the loop for delivery with exactly the previous *)
(* items whose lower-cased name is no lower-cased excluded name, in their  *)
(* previous order, under a group index that matches them; when no name     *)
(* matches, the list is what it was.                                       *)
GroupedMatches(shopping_list) ==
  LET g == shopping_list.grouped
      items == shopping_list.items
  IN  /\ \A j, k \in 1..Len(g) : g[j].key = g[k].key => j = k
      /\ {g[j].key : j \in 1..Len(g)} =
           {grocery_category(items[i]) : i \in 1..Len(items)}
      /\ \A j \in 1..Len(g) :
           g[j].items =
             SelectSeq(items, LAMBDA name : grocery_category(name) = g[j].key)

Matches(name, excluded) == \E e \in excluded : Lower(e) = Lower(name)

C14_ApproveExcludesByName ==
  [][(/\ pc = "receive"
      /\ pc' # "receive"
      /\ inbox \in {"approve", "approve_excluding", "approve_excluding_unmatched"})
     =>
       LET old == state.shopping_list.items
           excluded == excluded_items(inbox)
       IN  /\ pc' = "deliver"
           /\ state'.shopping_list.items =
                SelectSeq(old, LAMBDA name : ~Matches(name, excluded))
           /\ GroupedMatches(state'.shopping_list)
           /\ (\A i \in 1..Len(old) : ~Matches(old[i], excluded))
                => state' = state
           /\ [state' EXCEPT !.shopping_list = state.shopping_list] = state
    ]_vars

(* C14 witness: the approval excluded "SALT" from Garlic, Salt, rice, and  *)
(* the run stands before delivery with Garlic and rice, in that order.     *)
C14_Witness ==
  /\ pc = "deliver"
  /\ review_msg = "approve_excluding"
  /\ state.shopping_list.items = <<"Garlic", "rice">>
  /\ Len(state.shopping_list.grouped) = 2

(* C15: a response whose text is empty or whitespace does what an approval *)
(* without exclusions does: the loop is left for delivery, the state (and  *)
(* the shopping list in it) is unchanged, no collaborator is called and    *)
(* nothing is published.                                                   *)
C15_BlankIsApproval ==
  [][(/\ pc = "receive"
      /\ pc' # "receive"
      /\ inbox \in {"blank", "whitespace", "approve"})
     =>
       /\ pc' = "deliver"
       /\ approved'
       /\ state' = state
       /\ calls' = calls
       /\ sent' = sent
    ]_vars

(* C15 witness: a whitespace-only response ended the review of a list with *)
(* items, without a correction call.                                       *)
C15_Witness ==
  /\ pc = "deliver"
  /\ review_msg = "whitespace"
  /\ calls.correct = 0
  /\ state.shopping_list.items # <<>>

(* C16: a correction round that succeeds leaves a list whose items are the *)
(* items the AI service returned, with the menu and guest counts of the    *)
(* list before and a matching group index; a round that raises leaves the  *)
(* list as it was; and the list published after a correction round is the  *)
(* returned one.                                                           *)
C16_CorrectionReplacesList ==
  /\ [][(pc = "correct" /\ pc' = "review") =>
          /\ state'.shopping_list.present
          /\ state'.shopping_list.items = ai_reply'
          /\ state'.shopping_list.meal_plan = state.shopping_list.meal_plan
          /\ state'.shopping_list.guests = state.shopping_list.guests
          /\ GroupedMatches(state'.shopping_list)]_vars
  /\ [][(pc = "correct" /\ pc' = "except") =>
          state'.shopping_list = state.shopping_list]_vars
  /\ []((pc \in {"review", "receive"} /\ calls.correct > 0) =>
          state.shopping_list.items = ai_reply)

(* C16 witness: the three-item list was corrected once, the AI service     *)
(* returned Salt and rice, and that list is about to be published.         *)
C16_Witness ==
  /\ pc = "review"
  /\ calls.correct = 1
  /\ ai_reply = <<"Salt", "rice">>
  /\ state.shopping_list.items = <<"Salt", "rice">>
  /\ state.shopping_list.guests = "event"
  /\ state.shopping_list.meal_plan # <<>>

(* C17: when every delegated enrichment call has failed, the step that     *)
(* leaves the fan-out goes on to aggregation with the locally resolved     *)
(* dishes only, and the step after it calls the aggregation.               *)
C17_AllFailedStillAggregates ==
  /\ [][(/\ pc = "enrich_wait"
         /\ pc' # "enrich_wait"
         /\ \A i \in 1..Len(gemini) : gemini[i].status = "failed")
        =>
          /\ pc' = "aggregate"
          /\ state'.dish_ingredients = local
          /\ state'.error = "none"]_vars
  /\ [][(pc = "aggregate" /\ pc' # "aggregate") =>
          calls'.aggregate = calls.aggregate + 1]_vars

(* C17 witness: both dishes were delegated, both calls failed, and the     *)
(* aggregation was called with the empty dish list and returned.           *)
C17_Witness ==
  /\ pc = "review"
  /\ Len(gemini) = 2
  /\ \A i \in 1..Len(gemini) : gemini[i].status = "failed"
  /\ state.dish_ingredients = <<>>
  /\ calls.aggregate = 1
  /\ state.shopping_list.present

(* C18: an invocation skips to delivery exactly when it is handed a prior  *)
(* state whose shopping list has items; every other invocation starts the  *)
(* full pipeline.                                                          *)
C18_SkipIffNonEmptyList ==
  [][(pc = "idle" /\ pc' # "idle") =>
       /\ pc' \in {"deliver", "calc"}
       /\ (pc' = "deliver") <=>
            (/\ runs > 0
             /\ state.shopping_list.present
             /\ state.shopping_list.items # <<>>)]_vars

(* C19: no step of a re-entry run calls the classification, enrichment,    *)
(* aggregation or correction collaborator, and none changes a field of the *)
(* state other than the output formats, the stage and the deliverable      *)
(* output fields.                                                          *)
C19_ReentryFrame ==
  [][prior_list' =>
       /\ calls'.categorise = 0 /\ calls'.enrich = 0
       /\ calls'.aggregate = 0 /\ calls'.correct = 0
       /\ state'.shopping_list = state.shopping_list
       /\ state'.serving_specs = state.serving_specs
       /\ state'.dish_ingredients = state.dish_ingredients
       /\ state'.user_corrections = state.user_corrections
       /\ state'.error = state.error]_vars

(* C20: every dish marked store-bought has, once the routing is done, one  *)
(* entry whose only line is the dish name, quantity 1, unit count; and no  *)
(* enrichment call is ever made for a store-bought dish.                   *)
C20_StoreBoughtOneLine ==
  /\ \A i \in 1..Len(gemini) : ~event_data[gemini[i].spec.dish].sb
  /\ \A i \in 1..Len(state.dish_ingredients) :
       LET d == state.dish_ingredients[i]
       IN  event_data[d.dish].sb =>
             d.ingredients = <<[name |-> d.dish, quantity |-> 1, unit |-> "count"]>>
  /\ pc \in {"enrich_wait", "aggregate"} =>
       /\ calls.enrich = Len(gemini)
       /\ \A j \in 1..Len(state.serving_specs) :
            event_data[state.serving_specs[j].dish].sb =>
              Cardinality({i \in 1..Len(local) :
                             local[i].dish = state.serving_specs[j].dish}) = 1

(* C20 witness: a store-bought dish that has a base recipe and was         *)
(* classified a beverage got its one line, and no call was delegated.      *)
C20_Witness ==
  /\ pc = "aggregate"
  /\ gemini = <<>>
  /\ \E i \in 1..Len(state.dish_ingredients) :
       LET d == state.dish_ingredients[i]
       IN  /\ event_data[d.dish].sb
           /\ event_data[d.dish].rec
           /\ d.serving_spec.dish_category \in BEVERAGE_CATEGORIES
           /\ Len(d.ingredients) = 1

(* C21: the enrichment call is made for a dish if and only if the dish is  *)
(* not store-bought and is a beverage or has no base recipe with           *)
(* ingredients, and each such dish gets exactly one call: a non-beverage   *)
(* with a base recipe, like a store-bought dish, gets none.                *)
C21_DelegatedIffNoLocalRoute ==
  [][(pc = "enrich" /\ pc' # "enrich") =>
       /\ calls'.enrich - calls.enrich = Len(gemini')
       /\ \A i \in 1..Len(state.serving_specs) :
            LET spec == state.serving_specs[i]
                recipe == event_data[spec.dish]
                delegated ==
                  /\ ~recipe.sb
                  /\ \/ spec.dish_category \in BEVERAGE_CATEGORIES
                     \/ ~recipe.rec
            IN  Cardinality({j \in 1..Len(gemini') : gemini'[j].spec = spec}) =
                  IF delegated THEN 1 ELSE 0]_vars

C21_Witness ==
  /\ pc = "enrich_wait"
  /\ Len(gemini) = 1
  /\ event_data[gemini[1].spec.dish].rec
  /\ Len(local) = 1
  /\ local[1].via = "scaled"

(* C23: after aggregate_ingredients the shopping list holds no item whose  *)
(* lower-cased, trimmed name is in the never-purchase set, keeps every     *)
(* other item the AI service returned in its order, and carries a group    *)
(* index built from the items that were kept.                              *)
C23_NeverPurchaseFiltered ==
  [][(pc = "aggregate" /\ pc' = "review") =>
       LET list == state'.shopping_list
       IN  /\ list.present
           /\ list.items =
                SelectSeq(ai_reply',
                          LAMBDA name :
                            \A never \in NEVER_PURCHASE : Strip(Lower(name)) # never)
           /\ GroupedMatches(list)]_vars

C23_Witness ==
  /\ pc = "review"
  /\ ai_reply = <<"Garlic", "Salt", " Water", "rice">>
  /\ state.shopping_list.items = <<"Garlic", "Salt", "rice">>
  /\ Len(state.shopping_list.grouped) = 2

(* C24: whenever the shopping list is about to be published for review or *)
(* is in the hands of the delivery tasks, its group index is what a fresh  *)
(* group-by of its items by grocery category gives, whatever aggregation,  *)
(* correction rounds, approval exclusions and re-entry came before.        *)
C24_GroupedIsGroupBy ==
  (pc \in {"review", "receive", "deliver", "deliver_wait"}
     /\ state.shopping_list.present)
    => GroupedMatches(state.shopping_list)

C24_Witness ==
  /\ pc = "deliver_wait"
  /\ prior_list
  /\ state.shopping_list.items = <<"rice">>
  /\ state.shopping_list.grouped = <<[key |-> "pantry", items |-> <<"rice">>]>>

(* C28: a run that got as far as the delivery stage with a requested       *)
(* delivery collaborator absent (the spreadsheet service, which no caller  *)
(* passes, or the task-list service) returns with stage COMPLETE: the task *)
(* of the absent collaborator returns without raising.                     *)
C28_AbsentCollaboratorSkipped ==
  (/\ pc = "idle"
   /\ runs > 0
   /\ CountStage(sent, DELIVERING) > 0
   /\ \/ GOOGLE_SHEET \in state.output_formats
      \/ GOOGLE_TASKS \in state.output_formats /\ ~tasks_service)
    => state.stage = COMPLETE

Distance(a, b) == IF a >= b THEN a - b ELSE b - a

C25_TotalIsSum ==
  (call.fn = "calculate_dish_serving_spec") =>
    LET category == call.args.dish_category
        spec == call.result
    IN  /\ spec.adult_servings =
             call.args.adult_count * ADULT_SERVINGS_PER_PERSON[category]
        /\ spec.child_servings =
             call.args.child_count * CHILD_SERVINGS_PER_PERSON[category]
        /\ spec.total_servings = spec.adult_servings + spec.child_servings

C25_Witness ==
  /\ call.fn = "calculate_dish_serving_spec"
  /\ call.args.dish_category = SALAD
  /\ call.args.adult_count = 8
  /\ call.args.child_count = 2
  /\ call.result.total_servings = 900

(* C26: a main-protein dish gets 1.25 servings per adult and 0.75 per      *)
(* child: 8 adults and no children give total servings 10.0, 8 adults and  *)
(* 2 children give 11.5.                                                   *)
C26_MainProteinMultipliers ==
  (call.fn = "calculate_dish_serving_spec"
     /\ call.args.dish_category = MAIN_PROTEIN) =>
    /\ call.result.adult_servings = 125 * call.args.adult_count
    /\ call.result.child_servings = 75 * call.args.child_count
    /\ (call.args.adult_count = 8 /\ call.args.child_count = 0)
         => call.result.total_servings = 1000
    /\ (call.args.adult_count = 8 /\ call.args.child_count = 2)
         => call.result.total_servings = 1150

(* C27: calculate_all_serving_specs returns exactly one spec per dish of   *)
(* the meal plan, in the meal plan's order, and a dish the category        *)
(* mapping does not name gets the starch-side category.                    *)
C27_OneSpecPerDish ==
  (call.fn = "calculate_all_serving_specs") =>
    LET meal_plan == call.args.meal_plan
        dish_categories == call.args.dish_categories
        specs == call.result
    IN  /\ Len(specs) = Len(meal_plan)
        /\ \A i \in 1..Len(meal_plan) :
             /\ specs[i].dish = meal_plan[i]
             /\ specs[i].dish_category =
                  IF meal_plan[i] \in DOMAIN dish_categories
                  THEN dish_categories[meal_plan[i]]
                  ELSE STARCH_SIDE

C27_Witness ==
  /\ call.fn = "calculate_all_serving_specs"
  /\ call.args.meal_plan = <<"ribs", "rice">>
  /\ DOMAIN call.args.dish_categories = {"ribs"}
  /\ call.args.dish_categories["ribs"] = MAIN_PROTEIN
  /\ Len(call.result) = 2
  /\ call.result[2].dish_category = STARCH_SIDE

(* C29: apply_extraction called in stage gathering leaves the stage        *)
(* recipe_confirmation exactly when, with the extraction applied, all six  *)
(* critical questions are answered, the meal plan has at least one recipe, *)
(* is confirmed, and no recipe is awaiting user input; otherwise the stage *)
(* is still gathering.                                                     *)
C29_GatheringAdvancesWhenComplete ==
  (call.fn = "apply_extraction"
     /\ call.args.event_data.conversation_stage = "gathering") =>
    LET recipes == session.meal_plan.recipes
        complete ==
          /\ CriticalQuestions \subseteq session.answered_questions
          /\ Len(recipes) >= 1
          /\ session.meal_plan.confirmed
          /\ \A i \in 1..Len(recipes) : ~recipes[i].awaiting_user_input
    IN  session.conversation_stage =
          IF complete THEN "recipe_confirmation" ELSE "gathering"

C29_Witness ==
  /\ call.fn = "apply_extraction"
  /\ call.args.event_data.conversation_stage = "gathering"
  /\ ~call.args.event_data.meal_plan.confirmed
  /\ call.args.extraction.meal_plan_confirmed
  /\ Len(session.meal_plan.recipes) = 2
  /\ session.conversation_stage = "recipe_confirmation"

(* C30: apply_extraction called in stage selecting_output leaves the stage *)
(* agent_running if and only if the extraction carries at least one valid  *)
(* output format, and then stores the valid formats without the unknown    *)
(* names; called in an earlier stage it leaves the stored formats as they  *)
(* were and does not reach agent_running.                                  *)
C30_FormatsOnlyWhenSelecting ==
  (call.fn = "apply_extraction") =>
    LET before == call.args.event_data
        valid == SelectSeq(call.args.extraction.output_formats,
                           LAMBDA f : f \in {GOOGLE_SHEET, GOOGLE_TASKS, IN_CHAT})
    IN  /\ (before.conversation_stage = "selecting_output") =>
             /\ session.conversation_stage =
                  IF valid # <<>> THEN "agent_running" ELSE "selecting_output"
             /\ (valid # <<>>) => session.output_formats = valid
        /\ (before.conversation_stage \in {"gathering", "recipe_confirmation"}) =>
             /\ session.output_formats = before.output_formats
             /\ session.conversation_stage # "agent_running"

C30_Witness ==
  /\ call.fn = "apply_extraction"
  /\ call.args.event_data.conversation_stage = "selecting_output"
  /\ call.args.extraction.output_formats = <<GOOGLE_TASKS, "fax_machine">>
  /\ session.conversation_stage = "agent_running"
  /\ session.output_formats = <<GOOGLE_TASKS>>

(* C31: the step that calls the aggregation is taken only when every       *)
(* dispatched enrichment task has settled, whatever the order in which     *)
(* the tasks settled, and the dish list the call is given holds the        *)
(* result of every task that succeeded.                                    *)
C31_AggregationAfterAllSettled ==
  [][calls'.aggregate # calls.aggregate =>
       /\ \A i \in 1..Len(gemini) : gemini[i].status \in {"ok", "failed"}
       /\ \A i \in 1..Len(gemini) :
            gemini[i].status = "ok" =>
              \E j \in 1..Len(state.dish_ingredients) :
                /\ state.dish_ingredients[j].dish = gemini[i].spec.dish
                /\ state.dish_ingredients[j].via = "gemini"]_vars

(* C31 witness: two tasks were dispatched, the first failed and the second *)
(* succeeded, and the aggregation was called with the second's result.     *)
C31_Witness ==
  /\ pc = "review"
  /\ calls.aggregate = 1
  /\ Len(gemini) = 2
  /\ gemini[1].status = "failed"
  /\ gemini[2].status = "ok"
  /\ Len(state.dish_ingredients) = 1
  /\ state.dish_ingredients[1].dish = gemini[2].spec.dish

(* C32: while a fan-out is waiting for its tasks, no step changes a field  *)
(* of the run state; the state changes only in the step that leaves the    *)
(* wait, when every task has settled.                                      *)
C32_SubTasksOnlyReturn ==
  [][(/\ pc \in {"enrich_wait", "deliver_wait"}
      /\ pc' = pc)
     => state' = state]_vars

(* C33: after each correction round, and whenever run_agent has returned,  *)
(* user_corrections is empty.                                              *)
C33_CorrectionsCleared ==
  [][((pc = "correct" /\ pc' = "review") \/ pc' = "idle") =>
       state'.user_corrections = "none"]_vars

(* C35: the menu recorded on the shopping list is the confirmed menu in    *)
(* menu order, and the guest counts recorded on it are those of the event. *)
C35_MenuAndGuestsRecorded ==
  state.shopping_list.present =>
    /\ state.shopping_list.meal_plan = [i \in 1..Len(event_data) |-> i]
    /\ state.shopping_list.guests = "event"

(* C36: no shopping list published for review or handed to a delivery task *)
(* has an item whose normalized name is in the never-purchase set.         *)
C36_NeverPurchaseNeverShown ==
  (pc \in {"receive", "deliver", "deliver_wait"} /\ state.shopping_list.present) =>
    \A i \in 1..Len(state.shopping_list.items) :
      Strip(Lower(state.shopping_list.items[i])) \notin NEVER_PURCHASE

(* C34: build_grouped partitions the items: the keys are distinct, every   *)
(* item is in the bucket keyed by its grocery category and in no other,    *)
(* a bucket holds exactly the items of its category in item order, the     *)
(* buckets together hold as many items as the list, no bucket is empty,    *)
(* and an empty list gives an empty index.                                 *)
RECURSIVE SumLen(_, _)
SumLen(g, n) == IF n = 0 THEN 0 ELSE SumLen(g, n - 1) + Len(g[n].items)

C34_BuildGroupedPartitions ==
  call.fn = "build_grouped" =>
    LET items == call.args.items
        g == call.result
    IN  /\ \A i \in 1..Len(items) :
             Cardinality({j \in 1..Len(g) :
                            \E k \in 1..Len(g[j].items) : g[j].items[k] = items[i]}) = 1
        /\ \A i \in 1..Len(items) :
             \E j \in 1..Len(g) :
               /\ g[j].key = grocery_category(items[i])
               /\ \E k \in 1..Len(g[j].items) : g[j].items[k] = items[i]
        /\ \A j, k \in 1..Len(g) : g[j].key = g[k].key => j = k
        /\ \A j \in 1..Len(g) :
             /\ g[j].items # <<>>
             /\ g[j].items =
                  SelectSeq(items, LAMBDA name : grocery_category(name) = g[j].key)
        /\ SumLen(g, Len(g)) = Len(items)
        /\ (items = <<>> => g = <<>>)

(* C34 witness: three items of two categories, the first and third in one  *)
(* bucket in item order, the second in the other.                          *)
C34_Witness ==
  /\ call.fn = "build_grouped"
  /\ call.args.items = <<"Salt", "Garlic", "rice">>
  /\ Len(call.result) = 2
  /\ call.result[1] = [key |-> "pantry", items |-> <<"Salt", "rice">>]
  /\ call.result[2] = [key |-> "produce", items |-> <<"Garlic">>]

(* C39: one apply_extraction call leaves the conversation stage where it   *)
(* was or moves it one step forward along gathering, recipe_confirmation,  *)
(* selecting_output, agent_running; it never moves it backward, also when  *)
(* the call adds or removes a recipe and so resets the confirmation.       *)
StageRank(stage) ==
  CASE stage = "gathering" -> 0
    [] stage = "recipe_confirmation" -> 1
    [] stage = "selecting_output" -> 2
    [] stage = "agent_running" -> 3
    [] stage = "complete" -> 4

C39_OneStageStepPerCall ==
  call.fn = "apply_extraction" =>
    LET before == StageRank(call.args.event_data.conversation_stage)
        after == StageRank(session.conversation_stage)
    IN  /\ after \in {before, before + 1}
        /\ after > before => after <= 3

(* C39 witness: a call made in selecting_output with a confirmed plan      *)
(* removes or adds a recipe, which resets the confirmation, and the stage  *)
(* is not moved backward.                                                  *)
C39_Witness ==
  /\ call.fn = "apply_extraction"
  /\ call.args.event_data.conversation_stage = "selecting_output"
  /\ call.args.event_data.meal_plan.confirmed
  /\ \E i \in 1..Len(call.args.extraction.recipe_updates) :
       call.args.extraction.recipe_updates[i].action \in {"add", "remove"}
  /\ ~session.meal_plan.confirmed
  /\ session.conversation_stage = "selecting_output"

(* C37: the handler starts the agent pipeline only for a session whose     *)
(* meal plan is confirmed and complete and whose stage, before the message *)
(* that led to the hand-off, was selecting_output; a select_outputs        *)
(* message received in gathering or recipe_confirmation starts no run.     *)
C37_PipelineOnlyAfterSelectingOutput ==
  [][(/\ call.fn # "none"
      /\ session.conversation_stage = "agent_running"
      /\ session'.conversation_stage = "complete")
     =>
       /\ call.args.event_data.conversation_stage = "selecting_output"
       /\ session.meal_plan.confirmed
       /\ Len(session.meal_plan.recipes) > 0
       /\ MealPlanIsComplete(session.meal_plan)]_vars

(* C38: once the OAuth callback has stored credentials on the row of the   *)
(* session, no later save erases them, and a handler that finishes a       *)
(* message after that holds the credentials.                               *)
C38_CredentialsSurviveSaves ==
  [][row.google_task_credentials = "token" =>
       /\ row'.google_task_credentials = "token"
       /\ (call.fn # "none" /\ call' = NoCall => google_credentials = "token")]_vars

(* C40: for a hand-off made from selecting_output, the handler marks the   *)
(* conversation complete and saves a plan snapshot only when run_agent     *)
(* returned a state in stage COMPLETE, never when it returned ERROR.       *)
C40_CompleteOnlyAfterCompleteRun ==
  [][(/\ call.fn # "none"
      /\ call.args.event_data.conversation_stage = "selecting_output"
      /\ \/ (/\ session.conversation_stage = "agent_running"
             /\ session'.conversation_stage = "complete")
         \/ plans' # plans)
     => agent_state'.stage = COMPLETE]_vars

====
